---- MODULE Spec2Model ----
(***************************************************************************)
(* State-machine model of the ArchDaily crawler:                           *)
(*   - AD_crawler.py: the crawl orchestrator (__main__), the ledger        *)
(*     functions update_csv_status / remove_csv_status and the two stages  *)
(*     project_scraper / process_project_images;                           *)
(*   - list_generator.py: the discovery workers, the shared table, the     *)
(*     deduplication and the classification pass.                          *)
(* Sequences are 1-based here; the Python indices are 0-based, so the       *)
(* Python test len(row) > status_index reads Len(row) >= status_index.      *)
(***************************************************************************)
EXTENDS Integers, Sequences, FiniteSets, TLC

\* ------------------------------------------------------------- bounds
\* Data rows of a ledger file.
MaxRows == 2
\* Program executions in a row over the same ledger file.
MaxRuns == 2
\* Gallery items of one project page.
MaxItems == 2

\* ------------------------------------------------- ledger file content
\* The status literals of the ledger (skip list of __main__, final_status).
StatusCodes == {"", "downloaded", "error", "incomplete", "duplicate", "delete"}

\* Values of the first column. "101" is all digits, "abc" is not.
Codes == {"101", "abc"}

\* The header list_generator.py writes (the DataFrame's columns).
LedgerHeader == <<"project_id", "link", "keyword", "status">>

\* A header without the status column.
NoStatusHeader == <<"project_id", "link", "keyword">>

\* A complete data row, a row cut short before the status column, and the
\* empty row csv.reader yields for a blank line.
FullRow(c, s) == <<c, "link", "kw", s>>

ShortRow(c) == <<c, "link">>

RowDomain ==
    {FullRow(c, s) : c \in Codes, s \in StatusCodes}
        \cup {ShortRow(c) : c \in Codes} \cup {<< >>}

RowSeqs == UNION {[1..n -> RowDomain] : n \in 0..MaxRows}

\* The tables a ledger file may hold when a program starts: header then
\* rows; a header without status; an empty file (no header line at all).
LedgerTables ==
    {<<LedgerHeader>> \o r : r \in RowSeqs}
        \cup {<<NoStatusHeader>> \o r : r \in {s \in RowSeqs : Len(s) <= 1}}
        \cup {<< >>}

\* Mutant of lower: the string is compared as it is spelled.
lower_as_spelled(s) == s

\* str.lower (and case=False) on the strings of the model.
lower(s) ==
    CASE s = "DELETE" -> "delete"
      [] s = "Downloaded" -> "downloaded"
      [] s = "ERROR" -> "error"
      [] s = "Incomplete" -> "incomplete"
      [] s = "DUPLICATE" -> "duplicate"
      [] s = "PENDING" -> "pending"
      [] s = "Art" -> "art"
      [] s = "Gallery" -> "gallery"
      [] s = "School" -> "school"
      [] s = "Modern" -> "modern"
      [] OTHER -> s

\* Mutant of header_index: a missing column falls back to the last column
\* instead of raising ValueError.
header_index_default_last(h, name) ==
    IF \E k \in 1..Len(h) : h[k] = name
    THEN CHOOSE k \in 1..Len(h) : h[k] = name /\ \A j \in 1..(k - 1) : h[j] # name
    ELSE Len(h)

\* list.index: the position of name in the header, 0 for ValueError.
header_index(h, name) ==
    IF \E k \in 1..Len(h) : h[k] = name
    THEN CHOOSE k \in 1..Len(h) : h[k] = name /\ \A j \in 1..(k - 1) : h[j] # name
    ELSE 0

\* code_index = 0 in the source: the first column.
code_index == 1

\* ------------------------------------------------------------- state
VARIABLES
    fs,                          \* the files: fs.csv, fs.tmp : [exists, rows], and
                                 \* fs.data: the folders data/<project id>
    entry,                       \* entry point being executed
    debug_mode, text_only_mode,  \* args.debug, args.text_only
    driver,                      \* shared WebDriver: "none" | "started" | "quit"
    pc,                          \* position in the program
    rows,                        \* __main__: rows = list(reader)
    status_index,                \* __main__: header.index('status')
    i,                           \* __main__: loop index into rows
    scraper_status,              \* __main__ local
    downloader_overall_success,  \* __main__ local
    final_status,                \* __main__ local
    upd_code, upd_status,        \* update_csv_status arguments
    upd_rows,                    \* update_csv_status: rows being written
    upd_old,                     \* table update_csv_status read (history)
    run,                         \* number of the current execution
    startLedger,                 \* fs.csv when the execution started (history)
    invoked,                     \* stage calls of this execution (history)
    images_result,               \* what process_project_images returned (history)
    committed,                   \* rows whose commit replaced the ledger (history)
    prev                         \* whether this execution resumes an interrupted
                                 \* normal-mode run, and the rows that run
                                 \* committed (history)

\* list_generator.py
VARIABLES
    wpc,                         \* crawl_task of each worker: its position
    new_projects,                \* crawl_task: the DataFrame it built
    shared_df,                   \* shared_projects._df
    mpc,                         \* main: its position
    projects,                    \* main: the table it works on
    lock,                        \* shared_projects._lock: 0 or its holder
    concat_df,                   \* append: the result of pd.concat
    wdriver,                     \* crawl_task: driver, "none" | "started" | "quit"
    order,                       \* workers in the order of their appends (history)
    marked                       \* art_mask.sum() and research_mask.sum() as logged

dvars ==
    <<wpc, new_projects, shared_df, mpc, projects, lock, concat_df, wdriver,
      order, marked>>

\* Functions called on their own.
VARIABLES
    call,                        \* the function called and its arguments
    ret                          \* [done, and once done: error, target, ...]

\* extraction.py and merge_images_and_collect.py, over the data directory.
VARIABLES
    data_root,                   \* data/: [isdir, folders]
    out_root,                    \* jsons/: the file {folder}.json per folder
    merge_run                    \* [pc, todo, runs, before]

mgvars == <<data_root, out_root, merge_run>>

\* Loops of list_generator.crawl_task run on their own.
VARIABLES
    scroll                       \* [pc, last_height, scroll_attempts, measured]

\* The download loop of AD_crawler.process_project_images run on its own.
VARIABLES
    harvest                      \* [pc, gallery_items, index, attempts,
                                 \*  all_metadata, written, saved]

xvars == <<scroll, harvest>>

fvars == <<call, ret, mgvars, xvars>>

vars ==
    <<fs, entry, debug_mode, text_only_mode, driver, pc, rows, status_index, i,
      scraper_status, downloader_overall_success, final_status, upd_code,
      upd_status, upd_rows, upd_old, run, startLedger, invoked, images_result,
      committed, prev, dvars, fvars>>

NoFile == [exists |-> FALSE, rows |-> << >>]

File(t) == [exists |-> TRUE, rows |-> t]

\* The folders under data/ the model's project codes lead to.
DataFolders == {"101", "202", "unknown_project"}

\* data/ before any project was scraped: no <id>_details.json and no
\* <id>_images.json; later details is TRUE when the file is there and images
\* the number of records of the metadata file, 0 when it is not there.
NoData == [f \in DataFolders |-> [details |-> FALSE, images |-> 0]]

\* No call of process_project_images in this iteration.
NoImages == [returned |-> "none", items |-> 0, downloads |-> 0]

\* ------------------------------------------------------------ stages
\* project_scraper: "error" from the except clause when driver.get or the
\* write of the details file raises, "downloaded" otherwise.
project_scraper(getOk, saveOk) ==
    IF getOk /\ saveOk THEN "downloaded" ELSE "error"

\* str.isdigit on the path parts that occur in the model.
isdigit(part) == part \in {"101", "202"}

\* The path parts of base_url/project_code: the parts of the code between
\* its slashes.
path_parts(code) ==
    CASE code = "" -> << >>
      [] code = "x/202/101" -> <<"x", "202", "101">>
      [] code = "abc/def" -> <<"abc", "def">>
      [] OTHER -> <<code>>

\* The first all-digit path part, "" when there is none (project_id = None).
first_digit_part(parts) ==
    IF \E k \in 1..Len(parts) : isdigit(parts[k])
    THEN parts[CHOOSE k \in 1..Len(parts) :
                   isdigit(parts[k]) /\ \A j \in 1..(k - 1) : ~isdigit(parts[j])]
    ELSE ""

\* Mutant of process_project_images: a project without an id in its path
\* is not turned away.
process_project_images_any_path(code, mkdirOk, success_scrape, results) ==
    IF ~mkdirOk THEN FALSE
    ELSE IF ~success_scrape THEN FALSE
    ELSE IF Len(results) = 0 THEN TRUE
    ELSE \E k \in 1..Len(results) : results[k]

\* Mutant of process_project_images: a gallery without items is a failure.
process_project_images_empty_fails(code, mkdirOk, success_scrape, results) ==
    /\ first_digit_part(path_parts(code)) # ""
    /\ mkdirOk
    /\ success_scrape
    /\ \E k \in 1..Len(results) : results[k]

\* process_project_images, its returned overall_image_success:
\* results[k] is "success_download and final_filename" of gallery item k.
process_project_images(code, mkdirOk, success_scrape, results) ==
    IF first_digit_part(path_parts(code)) = "" THEN FALSE
    ELSE IF ~mkdirOk THEN FALSE
    ELSE IF ~success_scrape THEN FALSE
    ELSE IF Len(results) = 0 THEN TRUE
    ELSE \E k \in 1..Len(results) : results[k]

ItemResults == UNION {[1..n -> BOOLEAN] : n \in 0..MaxItems}

\* Lines 107-118 of project_scraper: the id from the path parts, else from
\* the pattern /(\d+)/ (which finds nothing the path parts do not have),
\* else "unknown_project".
scraper_project_id(code) ==
    IF first_digit_part(path_parts(code)) # ""
    THEN first_digit_part(path_parts(code))
    ELSE "unknown_project"

\* Lines 185-195 of project_scraper: the details file is written when the
\* page was read and the write went through. A failed write leaves the
\* folder as it was.
details_saved(files, code, getOk, saveOk) ==
    IF getOk /\ saveOk
    THEN [files EXCEPT !.data[scraper_project_id(code)].details = TRUE]
    ELSE files

\* successful_downloads of process_project_images: the items that
\* downloaded.
successful_downloads(results) ==
    Cardinality({k \in 1..Len(results) : results[k]})

\* Whether process_project_images gets as far as the download loop.
lists_gallery(code, mkdirOk, success_scrape) ==
    first_digit_part(path_parts(code)) # "" /\ mkdirOk /\ success_scrape

\* Lines 486-497 of process_project_images: the metadata file is written
\* when all_metadata is not empty; an IOError is printed and the folder is
\* left as it was.
metadata_saved(files, code, mkdirOk, success_scrape, results, dumpOk) ==
    IF /\ lists_gallery(code, mkdirOk, success_scrape)
       /\ successful_downloads(results) > 0
       /\ dumpOk
    THEN [files EXCEPT !.data[first_digit_part(path_parts(code))].images =
                           successful_downloads(results)]
    ELSE files

\* The galleries of the projects the orchestrator visits: no item, one item
\* that fails, one that downloads, two of which the first downloads.
GalleryResults == {<< >>, <<FALSE>>, <<TRUE>>, <<TRUE, FALSE>>}

\* What one call of process_project_images leaves: the returned success,
\* the gallery items it found and downloaded, and the files.
ImageStage(files, code) ==
    {[returned |-> IF process_project_images(code, mkdirOk, success_scrape, results)
                   THEN "ok" ELSE "failed",
      items |-> IF lists_gallery(code, mkdirOk, success_scrape)
                THEN Len(results) ELSE 0,
      downloads |-> IF lists_gallery(code, mkdirOk, success_scrape)
                    THEN successful_downloads(results) ELSE 0,
      files |-> metadata_saved(files, code, mkdirOk, success_scrape, results, dumpOk)] :
        mkdirOk \in BOOLEAN, success_scrape \in BOOLEAN, results \in GalleryResults,
        dumpOk \in BOOLEAN}

\* Mutant of FinalStatus: a failed detail stage leaves the status empty.
FinalStatus_error_left_empty(scraper, downloader) ==
    IF scraper = "downloaded"
    THEN IF downloader THEN "downloaded" ELSE "incomplete"
    ELSE ""

\* Mutant of FinalStatus: the outcome of the image stage is not consulted.
FinalStatus_ignoring_images(scraper, downloader) ==
    IF scraper = "downloaded" THEN "downloaded" ELSE "error"

\* __main__, step 3: the final status from the two outcomes.
FinalStatus(scraper, downloader) ==
    IF scraper = "downloaded"
    THEN IF downloader THEN "downloaded" ELSE "incomplete"
    ELSE "error"

\* Mutant of skip_statuses: text-only mode also retries error rows.
skip_statuses_retry_errors(text_only) ==
    IF text_only
    THEN {"incomplete", "duplicate", "delete"}
    ELSE {"error", "incomplete", "duplicate", "delete", "downloaded"}

\* __main__: the skip list of the run mode.
skip_statuses(text_only) ==
    {"error", "incomplete", "duplicate", "delete"}
        \cup (IF text_only THEN {} ELSE {"downloaded"})

\* __main__: status = row[status_index] if len(row) > status_index else "".
row_status(row, sidx) == IF Len(row) >= sidx THEN row[sidx] ELSE ""

\* ------------------------------------------------- update_csv_status
\* Mutant of update_row: the identifier of the row is not compared.
update_row_any_code(row, header, sidx, project_code, status) ==
    IF Len(row) >= code_index
    THEN IF Len(row) >= sidx
         THEN [row EXCEPT ![sidx] = status]
         ELSE [k \in 1..Len(header) |->
                  IF k = sidx THEN status
                  ELSE IF k <= Len(row) THEN row[k] ELSE ""]
    ELSE row

\* Mutant of update_row: a row too short for the status is left as it is.
update_row_long_only(row, header, sidx, project_code, status) ==
    IF Len(row) >= sidx /\ row[code_index] = project_code
    THEN [row EXCEPT ![sidx] = status]
    ELSE row

\* The loop body of update_csv_status for one data row.
update_row(row, header, sidx, project_code, status) ==
    IF Len(row) >= code_index /\ row[code_index] = project_code
    THEN IF Len(row) >= sidx
         THEN [row EXCEPT ![sidx] = status]
         ELSE [k \in 1..Len(header) |->
                  IF k = sidx THEN status
                  ELSE IF k <= Len(row) THEN row[k] ELSE ""]
    ELSE row

\* Mutant of updated_table: only the first row with the code is updated.
updated_table_first_only(table, project_code, status) ==
    LET header == table[1]
        sidx == header_index(header, "status")
        M == {k \in 2..Len(table) :
                 table[k] # << >> /\ table[k][code_index] = project_code}
    IN [k \in 1..Len(table) |->
           IF k \in M /\ \A j \in M : k <= j
           THEN update_row(table[k], header, sidx, project_code, status)
           ELSE table[k]]

\* The rows list update_csv_status builds from the table it read.
updated_table(table, project_code, status) ==
    LET header == table[1]
        sidx == header_index(header, "status")
    IN [k \in 1..Len(table) |->
           IF k = 1 THEN header
           ELSE update_row(table[k], header, sidx, project_code, status)]

\* Whether the reading half of update_csv_status goes on to write: the file
\* exists, has a header line and the header has a status column.
can_update(f) ==
    /\ f.exists
    /\ Len(f.rows) >= 1
    /\ header_index(f.rows[1], "status") # 0

\* Mutant of temp_file: the new table is written over the ledger itself.
temp_file_in_place == "csv"

\* Path(csv_file).with_suffix('.tmp'): the file the new table is written to.
temp_file == "tmp"


\* ---------------------------------------------------- variable groups
args == <<entry, debug_mode, text_only_mode>>

mainLocals ==
    <<rows, status_index, i, scraper_status, downloader_overall_success,
      final_status>>

updLocals == <<upd_code, upd_status, upd_rows, upd_old>>

hist == <<run, startLedger, invoked, images_result, committed, prev>>

\* Where update_csv_status returns to: the loop of __main__, or its caller.
return_pc == IF entry = "main" THEN "after" ELSE "returned"

\* Positions at which an execution has ended.
Terminal == {"done", "debug_done", "fatal", "nodriver", "interrupted", "returned"}

LedgerFiles == {File(t) : t \in LedgerTables} \cup {NoFile}

\* No function is called on its own.
\* ------------------------------------------------ JSON files of data/
\* The keys of a project's JSON object that matter here: one field of the
\* detail record, one of the fields extraction.py asks for (line 37,
\* written here in ASCII), and the key of the merge.
Keys == {"Description", "DesignConcept", "images"}

NoKey == [present |-> FALSE, value |-> << >>]

Key(v) == [present |-> TRUE, value |-> v]

EmptyObject == [k \in Keys |-> NoKey]

\* A file is absent, unparsable ("corrupt"), a JSON list or a JSON object.
JsonFile(kind, list, obj) == [kind |-> kind, list |-> list, obj |-> obj]

NoJson == JsonFile("absent", << >>, EmptyObject)

CorruptJson == JsonFile("corrupt", << >>, EmptyObject)

ListJson(l) == JsonFile("list", l, EmptyObject)

ObjectJson(o) == JsonFile("object", << >>, o)

MergeFolders == {"101", "202"}

\* The files {folder}_details.json, {folder}.json and {folder}_images.json.
NoFolder == [details |-> NoJson, json |-> NoJson, images |-> NoJson]

\* Neither script is running and there is no data directory.
MergeIdle ==
    /\ data_root = [isdir |-> FALSE, folders |-> [f \in MergeFolders |-> NoFolder]]
    /\ out_root = [f \in MergeFolders |-> NoJson]
    /\ merge_run = [pc |-> "off", todo |-> {}, runs |-> 0,
                    before |-> [data |-> [f \in MergeFolders |-> NoFolder],
                                out |-> [f \in MergeFolders |-> NoJson]]]

\* No scroll loop is running.
ScrollIdle ==
    scroll = [pc |-> "off", last_height |-> 0, scroll_attempts |-> 0,
              measured |-> << >>]

\* No download loop is running.
HarvestIdle ==
    harvest = [pc |-> "off", gallery_items |-> << >>, index |-> 0,
               attempts |-> << >>, all_metadata |-> << >>, written |-> {},
               saved |-> FALSE]

FunctionsIdle ==
    /\ call = [fn |-> "none"]
    /\ ret = [done |-> FALSE]
    /\ MergeIdle
    /\ ScrollIdle
    /\ HarvestIdle

\* list_generator.py is not running.
DiscoveryIdle ==
    /\ wpc = << >>
    /\ new_projects = << >>
    /\ shared_df = << >>
    /\ mpc = "off"
    /\ projects = << >>
    /\ lock = 0
    /\ concat_df = << >>
    /\ wdriver = << >>
    /\ order = << >>
    /\ marked = << >>

\* The state after construction: a ledger file on disk, no temporary file,
\* the command-line flags parsed, nothing executed yet.
InitFrom(entries, files) ==
    /\ fs \in {[csv |-> f, tmp |-> NoFile, data |-> NoData] : f \in files}
    /\ startLedger = fs.csv
    /\ entry \in entries
    /\ debug_mode \in (IF entry = "main" THEN BOOLEAN ELSE {FALSE})
    /\ text_only_mode \in (IF entry = "main" THEN BOOLEAN ELSE {FALSE})
    /\ driver = "none"
    /\ pc = (IF entry = "main" THEN "init" ELSE "call")
    /\ rows = << >>
    /\ status_index = 0
    /\ i = 0
    /\ scraper_status = ""
    /\ downloader_overall_success = FALSE
    /\ final_status = ""
    /\ upd_code = ""
    /\ upd_status = ""
    /\ upd_rows = << >>
    /\ upd_old = << >>
    /\ run = 1
    /\ invoked = {}
    /\ images_result = NoImages
    /\ committed = {}
    /\ prev = [resumed |-> FALSE, committed |-> {}]
    /\ DiscoveryIdle
    /\ FunctionsIdle

InitFor(entries) == InitFrom(entries, LedgerFiles)

\* ------------------------------------------------------- __main__
\* Lines 631-654: start the shared WebDriver; a failure is caught by the
\* outer except and the finally clause finds driver = None.
StartDriver ==
    /\ pc = "init"
    /\ \E ok \in BOOLEAN :
          IF ok
          THEN driver' = "started" /\ pc' = "read"
          ELSE driver' = driver /\ pc' = "nodriver"
    /\ UNCHANGED <<fs, args, mainLocals, updLocals, hist>>
    /\ UNCHANGED <<dvars, fvars>>

\* Lines 688-714: read the header and all rows; a missing file, a header
\* without 'status', an empty file or a read error quit the driver and exit.
ReadCsv ==
    /\ pc = "read"
    /\ \E readOk \in BOOLEAN :
          IF readOk /\ can_update(fs.csv)
          THEN /\ status_index' = header_index(fs.csv.rows[1], "status")
               /\ rows' = Tail(fs.csv.rows)
               /\ i' = 1
               /\ pc' = "loop"
               /\ driver' = driver
          ELSE /\ driver' = "quit"
               /\ pc' = "fatal"
               /\ UNCHANGED <<status_index, rows, i>>
    /\ UNCHANGED <<fs, args, scraper_status, downloader_overall_success,
                   final_status, updLocals, hist>>
    /\ UNCHANGED <<dvars, fvars>>

\* Lines 716-736 and 791-804: the loop head. Past the last row the run ends
\* and the finally clause quits the driver; an empty row and a row whose
\* lower-cased status is in the skip list are skipped.
LoopHead ==
    /\ pc = "loop"
    /\ IF i > Len(rows)
       THEN pc' = "done" /\ driver' = "quit" /\ i' = i
       ELSE IF rows[i] = << >>
       THEN pc' = pc /\ driver' = driver /\ i' = i + 1
       ELSE IF lower(row_status(rows[i], status_index))
                   \in skip_statuses(text_only_mode)
       THEN pc' = pc /\ driver' = driver /\ i' = i + 1
       ELSE pc' = "detail" /\ driver' = driver /\ i' = i
    /\ UNCHANGED <<fs, args, rows, status_index, scraper_status,
                   downloader_overall_success, final_status, updLocals, hist>>
    /\ UNCHANGED <<dvars, fvars>>

\* Line 744: scraper_status = project_scraper(project_link, driver).
Detail ==
    /\ pc = "detail"
    /\ \E getOk \in BOOLEAN, saveOk \in BOOLEAN :
          /\ scraper_status' = project_scraper(getOk, saveOk)
          /\ fs' = details_saved(fs, rows[i][code_index], getOk, saveOk)
    /\ invoked' = invoked \cup {<<"detail", i>>}
    /\ pc' = "images"
    /\ UNCHANGED <<args, driver, rows, status_index, i,
                   downloader_overall_success, final_status, updLocals, run,
                   startLedger, images_result, committed, prev>>
    /\ UNCHANGED <<dvars, fvars>>

\* Mutant of Images: the text-only flag is not consulted.
Images_in_text_only ==
    /\ pc = "images"
    /\ IF scraper_status = "downloaded"
       THEN \E o \in ImageStage(fs, rows[i][code_index]) :
               /\ downloader_overall_success' = (o.returned = "ok")
               /\ fs' = o.files
               /\ invoked' = invoked \cup {<<"images", i>>}
               /\ images_result' =
                      [returned |-> o.returned, items |-> o.items,
                       downloads |-> o.downloads]
       ELSE /\ downloader_overall_success' = FALSE
            /\ UNCHANGED <<fs, invoked, images_result>>
    /\ pc' = "final"
    /\ UNCHANGED <<args, driver, rows, status_index, i, scraper_status,
                   final_status, updLocals, run, startLedger, committed, prev>>
    /\ UNCHANGED <<dvars, fvars>>

\* Lines 746-759: the image stage, called only after a successful detail
\* stage and not in text-only mode, where success is assumed.
Images ==
    /\ pc = "images"
    /\ IF scraper_status = "downloaded"
       THEN IF text_only_mode
            THEN /\ downloader_overall_success' = TRUE
                 /\ UNCHANGED <<fs, invoked, images_result>>
            ELSE \E o \in ImageStage(fs, rows[i][code_index]) :
                    /\ downloader_overall_success' = (o.returned = "ok")
                    /\ fs' = o.files
                    /\ invoked' = invoked \cup {<<"images", i>>}
                    /\ images_result' =
                           [returned |-> o.returned, items |-> o.items,
                            downloads |-> o.downloads]
       ELSE /\ downloader_overall_success' = FALSE
            /\ UNCHANGED <<fs, invoked, images_result>>
    /\ pc' = "final"
    /\ UNCHANGED <<args, driver, rows, status_index, i, scraper_status,
                   final_status, updLocals, run, startLedger, committed, prev>>
    /\ UNCHANGED <<dvars, fvars>>

\* Mutant of updates_status: the debug flag is not consulted.
updates_status_always(debug) == TRUE

\* Line 775: the status is written unless the run is a debug run.
updates_status(debug) == ~debug

\* Lines 761-778: final_status, then update_csv_status unless debug_mode.
Final ==
    /\ pc = "final"
    /\ final_status' = FinalStatus(scraper_status, downloader_overall_success)
    /\ IF updates_status(debug_mode)
       THEN /\ upd_code' = rows[i][code_index]
            /\ upd_status' = final_status'
            /\ pc' = "upd_read"
       ELSE /\ UNCHANGED <<upd_code, upd_status>>
            /\ pc' = "after"
    /\ UNCHANGED <<fs, args, driver, rows, status_index, i, scraper_status,
                   downloader_overall_success, upd_rows, upd_old, hist>>
    /\ UNCHANGED <<dvars, fvars>>

\* Mutant of After: the loop does not move on to the next row.
After_same_row ==
    /\ pc = "after"
    /\ pc' = "loop"
    /\ UNCHANGED <<fs, args, driver, rows, status_index, i, scraper_status,
                   downloader_overall_success, final_status, updLocals, hist>>
    /\ UNCHANGED <<dvars, fvars>>

\* Lines 782-789: the pause, then break in debug mode or the next row. The
\* locals of the iteration are dead here (each is assigned again before it
\* is read) and are cleared.
After ==
    /\ pc = "after"
    /\ IF debug_mode
       THEN pc' = "debug_done" /\ driver' = "quit" /\ i' = i
       ELSE pc' = "loop" /\ driver' = driver /\ i' = i + 1
    /\ scraper_status' = ""
    /\ downloader_overall_success' = FALSE
    /\ final_status' = ""
    /\ images_result' = NoImages
    /\ UNCHANGED <<fs, args, rows, status_index, updLocals, run, startLedger,
                   invoked, committed, prev>>
    /\ UNCHANGED <<dvars, fvars>>

\* ----------------------------------------- update_csv_status, stepwise
\* A direct call of update_csv_status(csv_file, project_code, status).
CallUpdate ==
    /\ pc = "call"
    /\ entry = "update_csv_status"
    /\ \E code \in Codes \cup {"999"}, status \in StatusCodes :
          upd_code' = code /\ upd_status' = status
    /\ pc' = "upd_read"
    /\ UNCHANGED <<fs, args, driver, mainLocals, upd_rows, upd_old, hist>>
    /\ UNCHANGED <<dvars, fvars>>

\* Lines 506-539: read the table and build the new rows; return without
\* writing when the file is missing, has no header line, has no 'status'
\* column, or the read raises.
UpdRead ==
    /\ pc = "upd_read"
    /\ \E readOk \in BOOLEAN :
          IF readOk /\ can_update(fs.csv)
          THEN /\ upd_old' = fs.csv.rows
               /\ upd_rows' = updated_table(fs.csv.rows, upd_code, upd_status)
               /\ pc' = "upd_open"
          ELSE /\ UNCHANGED <<upd_old, upd_rows>>
               /\ pc' = return_pc
    /\ UNCHANGED <<fs, args, driver, mainLocals, upd_code, upd_status, hist>>
    /\ UNCHANGED <<dvars, fvars>>

\* Lines 570-575 of remove_csv_status: the status cell of a row that is not
\* empty and long enough is cleared, whatever it holds.
cleared_row(row, sidx) ==
    IF row # << >> /\ Len(row) >= sidx THEN [row EXCEPT ![sidx] = ""] ELSE row

\* The rows list remove_csv_status builds from the table it read.
cleared_table(table) ==
    LET sidx == header_index(table[1], "status")
    IN [k \in 1..Len(table) |->
           IF k = 1 THEN table[1] ELSE cleared_row(table[k], sidx)]

\* Lines 556-582: remove_csv_status(csv_file) reads the table and builds the
\* new rows; it returns without writing when the file is missing, has no
\* header line, has no 'status' column, or the read raises. Its write
\* (lines 584-595) is the one of update_csv_status.
RemoveRead ==
    /\ pc = "call"
    /\ entry = "remove_csv_status"
    /\ \E readOk \in BOOLEAN :
          IF readOk /\ can_update(fs.csv)
          THEN /\ upd_old' = fs.csv.rows
               /\ upd_rows' = cleared_table(fs.csv.rows)
               /\ pc' = "upd_open"
          ELSE /\ UNCHANGED <<upd_old, upd_rows>>
               /\ pc' = return_pc
    /\ UNCHANGED <<fs, args, driver, mainLocals, upd_code, upd_status, hist>>
    /\ UNCHANGED <<dvars, fvars>>

\* Lines 543-544: open the temporary file for writing, which truncates it.
\* On an exception the except clause removes the temporary file.
UpdOpen ==
    /\ pc = "upd_open"
    /\ \E ok \in BOOLEAN :
          IF ok
          THEN /\ fs' = [fs EXCEPT ![temp_file] = File(<< >>)]
               /\ pc' = "upd_write"
               /\ UNCHANGED <<upd_rows, upd_old>>
          ELSE /\ fs' = [fs EXCEPT ![temp_file] = NoFile]
               /\ pc' = return_pc
               /\ upd_rows' = << >>
               /\ upd_old' = << >>
    /\ UNCHANGED <<args, driver, mainLocals, upd_code, upd_status, hist>>
    /\ UNCHANGED <<dvars, fvars>>

\* Lines 545-546: writer.writerows(rows), one row reaching the file at a
\* time; closing the file when all rows are written.
UpdWrite ==
    /\ pc = "upd_write"
    /\ LET n == Len(fs[temp_file].rows)
       IN IF n < Len(upd_rows)
          THEN \E ok \in BOOLEAN :
                  IF ok
                  THEN /\ fs' = [fs EXCEPT ![temp_file] =
                                     File(Append(fs[temp_file].rows, upd_rows[n + 1]))]
                       /\ pc' = pc
                       /\ UNCHANGED <<upd_rows, upd_old>>
                  ELSE /\ fs' = [fs EXCEPT ![temp_file] = NoFile]
                       /\ pc' = return_pc
                       /\ upd_rows' = << >>
                       /\ upd_old' = << >>
          ELSE /\ pc' = "upd_replace"
               /\ UNCHANGED <<fs, upd_rows, upd_old>>
    /\ UNCHANGED <<args, driver, mainLocals, upd_code, upd_status, hist>>
    /\ UNCHANGED <<dvars, fvars>>

\* Mutant of os_replace: the source is removed and the target left as it is.
os_replace_lost(files, src, dst) == [files EXCEPT ![src] = NoFile]

\* os.replace(src, dst): dst gets the content of src and src is gone.
os_replace(files, src, dst) ==
    [[files EXCEPT ![src] = NoFile] EXCEPT ![dst] = files[src]]

\* Lines 547-553: replace the ledger by the temporary file; on an exception
\* remove the temporary file.
UpdReplace ==
    /\ pc = "upd_replace"
    /\ \E ok \in BOOLEAN :
          IF ok
          THEN /\ fs' = os_replace(fs, temp_file, "csv")
               /\ committed' = committed \cup {i}
          ELSE /\ fs' = [fs EXCEPT ![temp_file] = NoFile]
               /\ committed' = committed
    /\ pc' = return_pc
    /\ upd_rows' = << >>
    /\ upd_old' = << >>
    /\ UNCHANGED <<args, driver, mainLocals, upd_code, upd_status, run,
                   startLedger, invoked, images_result, prev>>
    /\ UNCHANGED <<dvars, fvars>>

\* ------------------------------------------- interruption and restart
\* The process is interrupted (KeyboardInterrupt, which no except clause of
\* __main__ or update_csv_status catches) or an exception reaches the except
\* clause of __main__ (lines 793-795): files stay as they are, the
\* finally clause of __main__ quits a started driver and the memory of the
\* process is gone. upd_rows and upd_old stay as the record of the write that
\* was under way, committed as the record of what reached the ledger.
Interrupt ==
    /\ pc \in {"read", "loop", "detail", "images", "final", "after", "upd_read",
               "upd_open", "upd_write", "upd_replace"}
    /\ pc' = "interrupted"
    /\ driver' = (IF driver = "started" THEN "quit" ELSE driver)
    /\ rows' = << >>
    /\ status_index' = 0
    /\ i' = 0
    /\ scraper_status' = ""
    /\ downloader_overall_success' = FALSE
    /\ final_status' = ""
    /\ upd_code' = ""
    /\ upd_status' = ""
    /\ images_result' = NoImages
    /\ invoked' = {}
    /\ UNCHANGED <<fs, args, upd_rows, upd_old, run, startLedger, committed,
                   prev>>
    /\ UNCHANGED <<dvars, fvars>>

\* The operator runs the crawler again, in normal mode, over the files the
\* previous execution left behind.
Restart ==
    /\ pc \in Terminal
    /\ entry = "main"
    /\ run < MaxRuns
    /\ run' = run + 1
    /\ prev' = IF pc = "interrupted"
                THEN [resumed |-> TRUE, committed |-> committed]
                ELSE [resumed |-> FALSE, committed |-> {}]
    /\ pc' = "init"
    /\ driver' = "none"
    /\ startLedger' = fs.csv
    /\ rows' = << >>
    /\ status_index' = 0
    /\ i' = 0
    /\ scraper_status' = ""
    /\ downloader_overall_success' = FALSE
    /\ final_status' = ""
    /\ upd_code' = ""
    /\ upd_status' = ""
    /\ upd_rows' = << >>
    /\ upd_old' = << >>
    /\ invoked' = {}
    /\ images_result' = NoImages
    /\ committed' = {}
    /\ UNCHANGED <<fs, args>>
    /\ UNCHANGED <<dvars, fvars>>

\* --------------------------------------------------- specifications
\* One execution of an entry point of AD_crawler.py over a ledger file:
\* the script (__main__) in any of its modes, or update_csv_status or
\* remove_csv_status called directly.
Init == InitFor({"main", "update_csv_status", "remove_csv_status"})

Next ==
    \/ StartDriver
    \/ ReadCsv
    \/ LoopHead
    \/ Detail
    \/ Images
    \/ Final
    \/ After
    \/ CallUpdate
    \/ UpdRead
    \/ RemoveRead
    \/ UpdOpen
    \/ UpdWrite
    \/ UpdReplace
    \/ Interrupt

Spec == Init /\ [][Next]_vars

\* ------------------------------------------- statuses as they are spelled
\* Spellings of the status column: the literals, the same words in another
\* letter case, and values the skip list does not know.
StatusSpellings ==
    StatusCodes \cup {"DELETE", "Downloaded", "ERROR", "Incomplete", "DUPLICATE",
                      "PENDING", "pending"}

StatusRows ==
    {FullRow("101", s) : s \in StatusSpellings} \cup {ShortRow("abc"), << >>}

StatusLedgers ==
    {File(<<LedgerHeader>> \o r) :
        r \in UNION {[1..n -> StatusRows] : n \in 0..MaxRows}}

\* One execution of __main__, in any mode, over a ledger whose statuses are
\* spelled in any of these ways.
InitStatuses == InitFrom({"main"}, StatusLedgers)

NextStatuses ==
    \/ StartDriver
    \/ ReadCsv
    \/ LoopHead
    \/ Detail
    \/ Images
    \/ Final
    \/ After
    \/ UpdRead
    \/ UpdOpen
    \/ UpdWrite
    \/ UpdReplace

SpecStatuses == InitStatuses /\ [][NextStatuses]_vars

\* ------------------------------------------------ paths of the projects
\* Values of the first column as paths: one segment or several, with and
\* without a segment that is all digits.
PathCodes == Codes \cup {"x/202/101", "abc/def"}

PathLedgers ==
    {File(<<LedgerHeader>> \o r) :
        r \in UNION {[1..n -> {FullRow(c, "") : c \in PathCodes}] : n \in 0..MaxRows}}

\* One execution of __main__, in any mode, over a ledger of empty rows whose
\* project codes are these paths.
InitPaths == InitFrom({"main"}, PathLedgers)

SpecPaths == InitPaths /\ [][NextStatuses]_vars

\* The ledgers the resumed runs start from: rows that are still to do,
\* rows that are done and pre-filtered rows, a short row and a blank line;
\* the other statuses get there through the commits of the runs.
ResumeRows ==
    {FullRow(c, s) : c \in Codes, s \in {"", "downloaded", "delete"}}
        \cup {ShortRow("101"), << >>}

ResumeLedgers ==
    {File(<<LedgerHeader>> \o r) :
        r \in UNION {[1..n -> ResumeRows] : n \in 0..MaxRows}}
        \cup {File(<<NoStatusHeader>>), NoFile}

\* Up to MaxRuns executions of the script in normal mode, one after the
\* other, over the same ledger file.
InitResume ==
    /\ InitFor({"main"})
    /\ ~debug_mode
    /\ ~text_only_mode
    /\ fs.csv \in ResumeLedgers

NextResume ==
    \/ StartDriver
    \/ ReadCsv
    \/ LoopHead
    \/ Detail
    \/ Images
    \/ Final
    \/ After
    \/ UpdRead
    \/ UpdOpen
    \/ UpdWrite
    \/ UpdReplace
    \/ Interrupt
    \/ Restart

SpecResume == InitResume /\ [][NextResume]_vars

\* ================================================= list_generator.py
\* Discovery workers (one per search URL).
MaxWorkers == 2
\* Result links one listing page yields.
MaxLinks == 2

\* A link is the sequence of its path segments, a segment the sequence of
\* its hyphen-separated words: /101/city-art-museum is
\* <<<<"101">>, <<"city", "art", "museum">>>>.
Links ==
    { <<<<"101">>, <<"city", "art", "museum">>>>,
      <<<<"303">>, <<"planetarium">>>>,
      <<<<"projects">>, <<"404">>>> }

LinkSeqs == UNION {[1..n -> Links] : n \in 0..MaxLinks}

\* str.isdigit on the words of the links.
is_digits(word) ==
    word \in {"101", "202", "303", "404", "505", "606", "707", "808", "909"}

\* re.search(r'/(\d+)/', link): the first segment that is all digits and is
\* followed by a slash, "" when there is no match.
search_id(link) ==
    LET M == {k \in 1..(Len(link) - 1) : Len(link[k]) = 1 /\ is_digits(link[k][1])}
    IN IF M = {} THEN ""
       ELSE link[CHOOSE k \in M : \A j \in M : k <= j][1]

\* The search URLs, as what keyword_source keeps of each: (has "?q=", the
\* text after "?q=" or after the last slash).
urls ==
    << [q |-> TRUE, tail |-> "Technology"],
       [q |-> FALSE, tail |-> "planetarium"],
       [q |-> TRUE, tail |-> "Biology"],
       [q |-> TRUE, tail |-> "Zoology"] >>

\* Lines 134-138: the keyword column of the rows of one URL.
keyword_source(url) ==
    IF url.q THEN <<"q=", url.tail>> ELSE <<"category/", url.tail>>

\* Lines 119-145: the DataFrame built from the links of one URL; links
\* without an id are left out.
RECURSIVE build_projects(_, _)
build_projects(project_links, url) ==
    IF project_links = << >> THEN << >>
    ELSE LET link == Head(project_links)
             rest == build_projects(Tail(project_links), url)
         IN IF search_id(link) # ""
            THEN <<[project_id |-> search_id(link), link |-> link,
                    keyword |-> keyword_source(url), status |-> ""]>> \o rest
            ELSE rest

\* Mutant of drop_duplicates: keep='last'.
RECURSIVE drop_duplicates_keep_last(_)
drop_duplicates_keep_last(df) ==
    IF df = << >> THEN << >>
    ELSE IF \E k \in 2..Len(df) : df[k].project_id = Head(df).project_id
         THEN drop_duplicates_keep_last(Tail(df))
         ELSE <<Head(df)>> \o drop_duplicates_keep_last(Tail(df))

\* Line 187: projects.drop_duplicates('project_id', keep='first').
RECURSIVE drop_duplicates(_)
drop_duplicates(df) ==
    IF df = << >> THEN << >>
    ELSE LET n == Len(df)
             last == df[n]
             front == drop_duplicates(SubSeq(df, 1, n - 1))
         IN IF \E k \in 1..(n - 1) : df[k].project_id = last.project_id
            THEN front
            ELSE Append(front, last)

\* str.startswith for the words of the model.
starts_with(word, prefix) ==
    \/ word = prefix
    \/ <<word, prefix>> \in {<<"museums", "museum">>, <<"arts", "art">>,
                             <<"artists", "art">>, <<"galleries", "galler">>,
                             <<"then", "the">>}

\* Line 194-195: link contains '-art-museum', '-art-gallery' or
\* '-contemporary-art' (case-insensitive): the first word of the pattern is
\* a whole word after a hyphen, the last one the start of the next word.
art_match(link) ==
    \E s \in 1..Len(link) : \E k \in 2..(Len(link[s]) - 1) :
        LET w == lower(link[s][k])
            nxt == lower(link[s][k + 1])
        IN \/ w = "art" /\ starts_with(nxt, "museum")
           \/ w = "art" /\ starts_with(nxt, "gallery")
           \/ w = "contemporary" /\ starts_with(nxt, "art")

\* Lines 202-212.
research_words ==
    {"laboratory", "institute", "foundation", "skylab", "research",
     "biocenter", "bioengineering", "school"}

\* Lines 215-218: a whole word of the link is one of research_words, or the
\* words tech and center follow each other ('tech-center').
research_match(link) ==
    \E s \in 1..Len(link) : \E k \in 1..Len(link[s]) :
        \/ lower(link[s][k]) \in research_words
        \/ /\ lower(link[s][k]) = "tech"
           /\ k < Len(link[s])
           /\ lower(link[s][k + 1]) = "center"

\* Line 195: art_mask, the rows whose link matches art_pattern.
art_mask(df) == {k \in 1..Len(df) : art_match(df[k].link)}

\* Mutant of research_mask: without "& (projects['status'] != 'delete')".
research_mask_any_status(df) == {k \in 1..Len(df) : research_match(df[k].link)}

\* Line 218: research_mask, the rows whose link matches research_pattern
\* and whose status is not 'delete'.
research_mask(df) ==
    {k \in 1..Len(df) : research_match(df[k].link) /\ df[k].status # "delete"}

\* Mutant of set_delete: the rows of the mask are dropped from the table.
set_delete_dropping(df, mask) ==
    LET keep == {k \in 1..Len(df) : k \notin mask}
        nth(j) == CHOOSE k \in keep : Cardinality({x \in keep : x < k}) = j - 1
    IN [j \in 1..Cardinality(keep) |-> df[nth(j)]]

\* Lines 196 and 219: projects.loc[mask, 'status'] = 'delete'.
set_delete(df, mask) ==
    [k \in 1..Len(df) |->
        IF k \in mask THEN [df[k] EXCEPT !.status = "delete"] ELSE df[k]]

Workers == 1..MaxWorkers

\* The crawler is not running.
OrchestratorIdle ==
    /\ fs = [csv |-> NoFile, tmp |-> NoFile, data |-> NoData]
    /\ startLedger = NoFile
    /\ entry = "list_generator"
    /\ debug_mode = FALSE
    /\ text_only_mode = FALSE
    /\ driver = "none"
    /\ pc = "off"
    /\ rows = << >>
    /\ status_index = 0
    /\ i = 0
    /\ scraper_status = ""
    /\ downloader_overall_success = FALSE
    /\ final_status = ""
    /\ upd_code = ""
    /\ upd_status = ""
    /\ upd_rows = << >>
    /\ upd_old = << >>
    /\ run = 1
    /\ invoked = {}
    /\ images_result = NoImages
    /\ committed = {}
    /\ prev = [resumed |-> FALSE, committed |-> {}]

ovars ==
    <<fs, entry, debug_mode, text_only_mode, driver, pc, rows, status_index, i,
      scraper_status, downloader_overall_success, final_status, upd_code,
      upd_status, upd_rows, upd_old, run, startLedger, invoked, images_result,
      committed, prev>>

\* main has submitted one crawl_task per URL and waits for them; the shared
\* table is empty.
InitDiscovery ==
    /\ OrchestratorIdle
    /\ FunctionsIdle
    /\ wpc = [w \in Workers |-> "start"]
    /\ new_projects = [w \in Workers |-> << >>]
    /\ shared_df = << >>
    /\ mpc = "wait"
    /\ projects = << >>
    /\ lock = 0
    /\ concat_df = [w \in Workers |-> << >>]
    /\ wdriver = [w \in Workers |-> "none"]
    /\ order = << >>
    /\ marked = << >>

\* Lines 84-145 of crawl_task: start the driver, load the listing, scroll,
\* read the links and build the rows. A failure to start the driver leaves
\* driver = None; a timeout or another exception, a page without links and
\* a page without a valid link go to the finally clause without an append.
CrawlScrape(w) ==
    /\ wpc[w] = "start"
    /\ \E started \in BOOLEAN, ok \in BOOLEAN, project_links \in LinkSeqs :
          LET df == build_projects(project_links, urls[w])
          IN /\ wdriver' = [wdriver EXCEPT ![w] = IF started THEN "started" ELSE "none"]
             /\ IF started /\ ok /\ project_links # << >> /\ df # << >>
                THEN /\ new_projects' = [new_projects EXCEPT ![w] = df]
                     /\ wpc' = [wpc EXCEPT ![w] = "append"]
                ELSE /\ new_projects' = new_projects
                     /\ wpc' = [wpc EXCEPT ![w] = "finally"]
    /\ UNCHANGED <<shared_df, mpc, projects, lock, concat_df, order, marked, ovars, fvars>>

\* Mutant of lock_acquirable: the lock excludes nobody.
lock_acquirable_always(l) == TRUE

\* threading.Lock: it can be taken when nobody holds it.
lock_acquirable(l) == l = 0

\* Line 58 (called at line 147): with self._lock.
AppendAcquire(w) ==
    /\ wpc[w] = "append"
    /\ lock_acquirable(lock)
    /\ lock' = w
    /\ wpc' = [wpc EXCEPT ![w] = "locked"]
    /\ UNCHANGED <<new_projects, shared_df, mpc, projects, concat_df, wdriver,
                   order, marked, ovars, fvars>>

\* Mutant of AppendConcat: the batch replaces the table.
AppendConcat_new_only(w) ==
    /\ wpc[w] = "locked"
    /\ concat_df' = [concat_df EXCEPT ![w] = new_projects[w]]
    /\ wpc' = [wpc EXCEPT ![w] = "concat"]
    /\ UNCHANGED <<new_projects, shared_df, mpc, projects, lock, wdriver,
                   order, marked, ovars, fvars>>

\* Line 61, right-hand side: pd.concat([self._df, new_df]) reads the table.
AppendConcat(w) ==
    /\ wpc[w] = "locked"
    /\ concat_df' = [concat_df EXCEPT ![w] = shared_df \o new_projects[w]]
    /\ wpc' = [wpc EXCEPT ![w] = "concat"]
    /\ UNCHANGED <<new_projects, shared_df, mpc, projects, lock, wdriver,
                   order, marked, ovars, fvars>>

\* Line 61, assignment to self._df, and the end of the with block, which
\* releases the lock.
AppendStore(w) ==
    /\ wpc[w] = "concat"
    /\ shared_df' = concat_df[w]
    /\ concat_df' = [concat_df EXCEPT ![w] = << >>]
    /\ lock' = 0
    /\ order' = Append(order, w)
    /\ wpc' = [wpc EXCEPT ![w] = "finally"]
    /\ UNCHANGED <<new_projects, mpc, projects, wdriver, marked, ovars, fvars>>

\* Mutant of CrawlFinally: the task returns without quitting its driver.
CrawlFinally_no_quit(w) ==
    /\ wpc[w] = "finally"
    /\ wpc' = [wpc EXCEPT ![w] = "done"]
    /\ UNCHANGED <<new_projects, shared_df, mpc, projects, lock, concat_df,
                   wdriver, order, marked, ovars, fvars>>

\* Lines 153-157: finally, quit the driver if there is one, and return.
CrawlFinally(w) ==
    /\ wpc[w] = "finally"
    /\ wdriver' = [wdriver EXCEPT ![w] = IF @ = "started" THEN "quit" ELSE @]
    /\ wpc' = [wpc EXCEPT ![w] = "done"]
    /\ UNCHANGED <<new_projects, shared_df, mpc, projects, lock, concat_df,
                   order, marked, ovars, fvars>>

\* Lines 63-65 and 164-182: all tasks are over; take the snapshot under the
\* lock and return None if it is empty.
MainGet ==
    /\ mpc = "wait"
    /\ \A w \in Workers : wpc[w] = "done"
    /\ lock_acquirable(lock)
    /\ projects' = shared_df
    /\ mpc' = (IF shared_df = << >> THEN "none" ELSE "got")
    /\ UNCHANGED <<wpc, new_projects, shared_df, lock, concat_df, wdriver,
                   order, marked, ovars, fvars>>

\* Lines 186-188.
MainDedup ==
    /\ mpc = "got"
    /\ projects' = drop_duplicates(projects)
    /\ mpc' = "deduped"
    /\ UNCHANGED <<wpc, new_projects, shared_df, lock, concat_df, wdriver,
                   order, marked, ovars, fvars>>

\* Lines 190-197: rule 1, and the number of rows it marked.
MainClassifyArt ==
    /\ mpc = "deduped"
    /\ projects' = set_delete(projects, art_mask(projects))
    /\ marked' = <<Cardinality(art_mask(projects))>>
    /\ mpc' = "art_marked"
    /\ UNCHANGED <<wpc, new_projects, shared_df, lock, concat_df, wdriver,
                   order, ovars, fvars>>

\* Lines 199-222: rule 2, the number of rows it marked, and the return.
MainClassifyResearch ==
    /\ mpc = "art_marked"
    /\ projects' = set_delete(projects, research_mask(projects))
    /\ marked' = Append(marked, Cardinality(research_mask(projects)))
    /\ mpc' = "returned"
    /\ UNCHANGED <<wpc, new_projects, shared_df, lock, concat_df, wdriver,
                   order, ovars, fvars>>

NextDiscovery ==
    \/ \E w \in Workers : CrawlScrape(w)
    \/ \E w \in Workers : AppendAcquire(w)
    \/ \E w \in Workers : AppendConcat(w)
    \/ \E w \in Workers : AppendStore(w)
    \/ \E w \in Workers : CrawlFinally(w)
    \/ MainGet
    \/ MainDedup
    \/ MainClassifyArt
    \/ MainClassifyResearch

SpecDiscovery == InitDiscovery /\ [][NextDiscovery]_vars

\* Rows of the table main classifies.
MaxTable == 2

\* Links for the classification rules: with and without a leading hyphen,
\* whole words and longer words, mixed case, both rules at once.
ClassifyLinks ==
    { <<<<"101">>, <<"city", "art", "museum">>>>,
      <<<<"202">>, <<"marine", "research", "institute">>>>,
      <<<<"303">>, <<"planetarium">>>>,
      <<<<"404">>, <<"institute", "contemporary", "art", "center">>>>,
      <<<<"505">>, <<"art", "museum", "annex">>>>,
      <<<<"606">>, <<"Modern", "Art", "Gallery", "School">>>>,
      <<<<"707">>, <<"schools", "of", "thought">>>>,
      <<<<"808">>, <<"bio", "tech", "center">>>>,
      <<<<"909">>, <<"new", "art", "museums", "hall">>>> }

\* One worker has appended its rows, all tasks are over and main has taken
\* the snapshot of the shared table.
InitClassify ==
    /\ OrchestratorIdle
    /\ FunctionsIdle
    /\ wpc = [w \in Workers |-> "done"]
    /\ \E n \in 1..MaxTable : \E project_links \in [1..n -> ClassifyLinks] :
          /\ new_projects = [w \in Workers |->
                IF w = 1 THEN build_projects(project_links, urls[1]) ELSE << >>]
          /\ shared_df = build_projects(project_links, urls[1])
          /\ projects = build_projects(project_links, urls[1])
    /\ mpc = "got"
    /\ lock = 0
    /\ concat_df = [w \in Workers |-> << >>]
    /\ wdriver = [w \in Workers |-> "quit"]
    /\ order = <<1>>
    /\ marked = << >>

NextClassify ==
    \/ MainDedup
    \/ MainClassifyArt
    \/ MainClassifyResearch

SpecClassify == InitClassify /\ [][NextClassify]_vars

\* Either program, each run on its own: AD_crawler.py as in Spec, or
\* list_generator.py as in SpecDiscovery.
InitSessions == Init \/ InitDiscovery

NextSessions ==
    \/ Next
    \/ (entry = "list_generator" /\ NextDiscovery)

SpecSessions == InitSessions /\ [][NextSessions]_vars

\* ================================================= functions on their own
\* The orchestrator and list_generator.py are not running.
ProgramsIdle ==
    /\ OrchestratorIdle
    /\ DiscoveryIdle
    /\ ScrollIdle
    /\ HarvestIdle

pvars == <<ovars, dvars, xvars>>

\* ---------------------------------------- download_gallery_image: target
\* Entries of a 'data-images' payload.
MaxEntries == 2

\* Strings are sequences of characters here: the resolver looks for
\* substrings and splits at '-'.
\* x in y for two strings.
contains(x, y) ==
    \E k \in 0..(Len(y) - Len(x)) : SubSeq(y, k + 1, k + Len(x)) = x

\* str.split('-')[0]: the part before the first '-'.
split_first(x) ==
    LET D == {k \in 1..Len(x) : x[k] = "-"}
    IN IF D = {} THEN x
       ELSE SubSeq(x, 1, (CHOOSE k \in D : \A j \in D : k <= j) - 1)

\* An entry of the payload: the keys the JSON object has and its link.
ImgInfo(keys, link) == [keys |-> keys, link |-> link]

ImgInfos ==
    {ImgInfo(keys \cup {"link"}, link) :
        keys \in SUBSET {"url_large"}, link \in {<<"1">>, <<"2">>, <<"1", "2">>}}
    \cup {ImgInfo(keys, << >>) : keys \in SUBSET {"url_large"}}

\* Line 309: json.loads(data_images_json), a list.
ImageData == UNION {[1..n -> ImgInfos] : n \in 0..MaxEntries}

\* urlparse(page_url).fragment; the empty string when there is none.
UrlFragments ==
    {<< >>, <<"1">>, <<"1", "2">>, <<"2", "-", "f">>, <<"3", "-", "1">>, <<"-", "f">>}

\* gallery_div.get('data-id'); None is the empty string here, both are falsy.
DefaultIds == {<< >>, <<"1">>, <<"2">>, <<"3">>}

\* Mutant of first_match: the link has to be the token, not to contain it.
first_match_whole_link(token, image_data) ==
    LET M == {k \in 1..Len(image_data) :
                 "link" \in image_data[k].keys /\ image_data[k].link = token}
    IN IF M = {} THEN 0 ELSE CHOOSE k \in M : \A j \in M : k <= j

\* Lines 321-324 and 330-333: the first entry with a 'link' that contains
\* the token, 0 when there is none.
first_match(token, image_data) ==
    LET M == {k \in 1..Len(image_data) :
                 "link" \in image_data[k].keys /\ contains(token, image_data[k].link)}
    IN IF M = {} THEN 0 ELSE CHOOSE k \in M : \A j \in M : k <= j

\* not target_image_info: None, or a dict without any key.
not_target(image_data, k) == k = 0 \/ image_data[k].keys = {}

\* Lines 319-326: the fragment tier.
fragment_target(url_fragment, image_data) ==
    IF url_fragment # << >>
    THEN first_match(split_first(url_fragment), image_data)
    ELSE 0

\* Lines 328-339: the fallback, the default id and then the first entry.
fallback_target(default_image_id_fragment, image_data) ==
    IF default_image_id_fragment # << >>
    THEN LET k == first_match(default_image_id_fragment, image_data)
         IN IF not_target(image_data, k) THEN 1 ELSE k
    ELSE 1

\* Mutant of target_image_info: the default id is tried before the fragment.
target_image_info_default_first(url_fragment, default_image_id_fragment, image_data) ==
    LET d == IF default_image_id_fragment # << >>
             THEN first_match(default_image_id_fragment, image_data)
             ELSE 0
        f == fragment_target(url_fragment, image_data)
    IN IF d # 0 THEN d ELSE IF f # 0 THEN f ELSE 1

\* Lines 315-339: the index of the entry target_image_info is bound to.
target_image_info(url_fragment, default_image_id_fragment, image_data) ==
    LET f == fragment_target(url_fragment, image_data)
    IN IF not_target(image_data, f)
       THEN fallback_target(default_image_id_fragment, image_data)
       ELSE f

\* A call of download_gallery_image on a page whose container and
\* 'data-images' attribute are there.
ResolverCalls ==
    {[fn |-> "download_gallery_image", url_fragment |-> f,
      default_image_id_fragment |-> d, image_data |-> p] :
        f \in UrlFragments, d \in DefaultIds, p \in ImageData}

\* Lines 308-343: validate the payload and determine the target entry.
DownloadGalleryImageTarget ==
    /\ call.fn = "download_gallery_image"
    /\ ret = [done |-> FALSE]
    /\ ret' =
          IF call.image_data = << >>
          THEN [done |-> TRUE, error |-> "'data-images' not a valid list.", target |-> 0]
          ELSE LET k == target_image_info(call.url_fragment,
                                          call.default_image_id_fragment,
                                          call.image_data)
               IN IF not_target(call.image_data, k)
                  THEN [done |-> TRUE, error |-> "Cannot determine target image.", target |-> 0]
                  ELSE [done |-> TRUE, error |-> "", target |-> k]
    /\ UNCHANGED <<call, pvars, mgvars>>

\* ------------------------------------------------- purge_description
\* Lines of a description list beyond the ones given by name.
MaxLines == 2

\* A paragraph is the sequence of its words (x.split()), the words one
\* space apart.
Paragraphs ==
    { <<"ok">>,
      <<"too", "short">>,
      <<"Check", "the", "gallery">>,
      <<"Save", "this", "picture!">>,
      <<"a", "house", "by", "the", "sea">>,
      <<"the", "house", "is", "made", "of", "wood">>,
      <<"Check", "then", "go", "there", "now">>,
      <<"Check", "the", "gallery", "of", "this", "house">>,
      <<"Save", "this", "picture!", "The", "house", "today">>,
      <<"You'll", "now", "receive", "updates", "based", "on", "what", "you",
        "follow!">> }

\* The description list ["ok", "too short", "Check the gallery",
\* "Save this picture!", "ok"].
FiveLines ==
    << <<"ok">>, <<"too", "short">>, <<"Check", "the", "gallery">>,
       <<"Save", "this", "picture!">>, <<"ok">> >>

DescriptionLists ==
    {FiveLines} \cup UNION {[1..n -> Paragraphs] : n \in 0..MaxLines}

\* Lines 66, 67 and 71: the texts looked for inside a paragraph.
boilerplate ==
    { <<"You'll", "now", "receive", "updates", "based", "on", "what", "you",
        "follow!">>,
      <<"If", "you", "want", "to", "make", "the", "best", "of", "your",
        "experience", "on", "our", "site,", "sign-up.">>,
      <<"Save", "this", "picture!">> }

\* Mutant of enough_words: a paragraph of one word is enough.
enough_words_one(x) == Len(x) > 0

\* Line 64: len(x.split()) > 3.
enough_words(x) == Len(x) > 3

\* Line 69: x.startswith("Check the").
starts_check_the(x) ==
    Len(x) >= 2 /\ x[1] = "Check" /\ starts_with(x[2], "the")

\* Lines 64-71: the paragraph passes the four filters.
kept(x) ==
    /\ enough_words(x)
    /\ \A b \in boilerplate : ~contains(b, x)
    /\ ~starts_check_the(x)

\* Lines 64-71: the list comprehensions.
RECURSIVE filtered(_)
filtered(description_list) ==
    IF description_list = << >> THEN << >>
    ELSE IF kept(Head(description_list))
         THEN <<Head(description_list)>> \o filtered(Tail(description_list))
         ELSE filtered(Tail(description_list))

\* Mutant of unique: duplicates are kept.
unique_keeps_all(description_list) == description_list

\* Lines 73-74: a paragraph stays where it is seen first.
RECURSIVE unique(_)
unique(description_list) ==
    IF description_list = << >> THEN << >>
    ELSE LET n == Len(description_list)
             front == unique(SubSeq(description_list, 1, n - 1))
         IN IF \E k \in 1..(n - 1) : description_list[k] = description_list[n]
            THEN front
            ELSE Append(front, description_list[n])

\* Lines 61-75.
purge_description(description_list) == unique(filtered(description_list))

PurgeCalls ==
    {[fn |-> "purge_description", description_list |-> l] : l \in DescriptionLists}

PurgeDescription ==
    /\ call.fn = "purge_description"
    /\ ret = [done |-> FALSE]
    /\ ret' = [done |-> TRUE, value |-> purge_description(call.description_list)]
    /\ UNCHANGED <<call, pvars, mgvars>>

\* purge_description called on the list it returned.
PurgeDescriptionAgain ==
    /\ call.fn = "purge_description"
    /\ ret.done
    /\ "again" \notin DOMAIN ret
    /\ ret' = [done |-> TRUE, value |-> ret.value,
               again |-> purge_description(ret.value)]
    /\ UNCHANGED <<call, pvars, mgvars>>

\* --------------------------------------------- process_project_images
\* A call on the project page of a code: whether the folder can be made,
\* what scrape_gallery_thumbnails returns (success_scrape and one gallery
\* item per element of results) and whether each item downloads.
ImagesCalls ==
    {[fn |-> "process_project_images", project_code |-> c, mkdirOk |-> m,
      success_scrape |-> g, results |-> r] :
        c \in Codes, m \in BOOLEAN, g \in BOOLEAN, r \in ItemResults}

\* Lines 387-501.
ProcessProjectImages ==
    /\ call.fn = "process_project_images"
    /\ ret = [done |-> FALSE]
    /\ ret' = [done |-> TRUE,
               value |-> process_project_images(call.project_code, call.mkdirOk,
                                                call.success_scrape, call.results)]
    /\ UNCHANGED <<call, pvars, mgvars>>

\* --------------------------------------------- the links of one batch
\* What get_attribute('href') returns for a link element without an href
\* value: None.
NoHref == << >>

\* The links of one listing, elements without an href among them.
HrefSeqs == UNION {[1..n -> Links \cup {NoHref}] : n \in 0..MaxLinks}

\* list_generator.py lines 112-147 of crawl_task, on the hrefs it collected
\* for one URL: the batch it appends to the shared table, none when it
\* returns early or an exception ends the task. re.search on None raises a
\* TypeError (line 124), which the except clause of line 150 catches.
crawl_task_links(project_links, url) ==
    IF project_links = << >>
    THEN [raised |-> FALSE, appended |-> << >>]
    ELSE IF \E k \in 1..Len(project_links) : project_links[k] = NoHref
    THEN [raised |-> TRUE, appended |-> << >>]
    ELSE [raised |-> FALSE, appended |-> build_projects(project_links, url)]

LinksCalls ==
    {[fn |-> "crawl_task_links", project_links |-> l, url |-> urls[1]] :
        l \in HrefSeqs}

CrawlTaskLinks ==
    /\ call.fn = "crawl_task_links"
    /\ ret = [done |-> FALSE]
    /\ ret' = [done |-> TRUE,
               value |-> crawl_task_links(call.project_links, call.url)]
    /\ UNCHANGED <<call, pvars, mgvars>>

\* --------------------------------------------- project_scraper, its steps
\* How the wait for div.the-content ends: the element is found, the wait
\* times out after 10 seconds, or the driver raises another exception.
WaitOutcomes == {"found", "timeout", "error"}

\* Mutant of marker_wait_raises: a timeout of the wait is not caught.
marker_wait_raises_on_timeout(outcome) == outcome # "found"

\* Lines 92-97: the TimeoutException of the wait is caught and the scraper
\* goes on; any other exception leaves the inner try.
marker_wait_raises(outcome) == outcome = "error"

\* Lines 86-200: the calls of driver.get made, the HTML parsed ("" when it
\* does not get that far, "available" for what is there after a timeout)
\* and the status returned. There is one driver.get, at line 88, outside
\* any loop.
project_scraper_steps(getOk, outcome, saveOk) ==
    IF ~getOk
    THEN [fetches |-> 1, html |-> "", status |-> "error"]
    ELSE IF marker_wait_raises(outcome)
    THEN [fetches |-> 1, html |-> "", status |-> "error"]
    ELSE [fetches |-> 1,
          html |-> IF outcome = "timeout" THEN "available" ELSE "loaded",
          status |-> IF saveOk THEN "downloaded" ELSE "error"]

ScraperCalls ==
    {[fn |-> "project_scraper", getOk |-> g, wait |-> o, saveOk |-> w] :
        g \in BOOLEAN, o \in WaitOutcomes, w \in BOOLEAN}

ProjectScraper ==
    /\ call.fn = "project_scraper"
    /\ ret = [done |-> FALSE]
    /\ ret' = [done |-> TRUE,
               value |-> project_scraper_steps(call.getOk, call.wait, call.saveOk)]
    /\ UNCHANGED <<call, pvars, mgvars>>

InitCalls ==
    /\ ProgramsIdle
    /\ call \in ResolverCalls \cup PurgeCalls \cup ImagesCalls \cup LinksCalls
                 \cup ScraperCalls
    /\ ret = [done |-> FALSE]
    /\ MergeIdle

NextCalls ==
    \/ DownloadGalleryImageTarget
    \/ PurgeDescription
    \/ ProcessProjectImages
    \/ CrawlTaskLinks
    \/ ProjectScraper
    \/ PurgeDescriptionAgain

SpecCalls == InitCalls /\ [][NextCalls]_vars

\* ================================================= the scroll loop
MaxHeight == 3

Heights == 1..MaxHeight

\* list_generator.py line 96.
max_scroll_attempts == 3

\* The heights measured last, the newest at the end: as many as decide
\* whether the loop ends.
recent(measured) ==
    IF Len(measured) > max_scroll_attempts + 1
    THEN SubSeq(measured, Len(measured) - max_scroll_attempts, Len(measured))
    ELSE measured

\* Line 94: the height is measured once before the loop.
InitScroll ==
    /\ OrchestratorIdle
    /\ DiscoveryIdle
    /\ call = [fn |-> "none"]
    /\ ret = [done |-> FALSE]
    /\ MergeIdle
    /\ HarvestIdle
    /\ \E h \in Heights :
         scroll = [pc |-> "loop", last_height |-> h, scroll_attempts |-> 0,
                   measured |-> <<h>>]

\* Lines 98-110: one pass of the while True loop: scroll, sleep, measure,
\* compare with the height measured before.
ScrollAttempt ==
    /\ scroll.pc = "loop"
    /\ \E new_height \in Heights :
         LET attempts == IF new_height = scroll.last_height
                         THEN scroll.scroll_attempts + 1
                         ELSE 0
             stop == new_height = scroll.last_height
                         /\ attempts >= max_scroll_attempts
         IN scroll' = [pc |-> IF stop THEN "exited" ELSE "loop",
                       last_height |-> new_height,
                       scroll_attempts |-> attempts,
                       measured |-> recent(Append(scroll.measured, new_height))]
    /\ UNCHANGED <<ovars, dvars, call, ret, mgvars, harvest>>

\* Lines 99-101 and 149-150: execute_script raises and the except clause
\* of crawl_task ends the task.
ScrollRaise ==
    /\ scroll.pc = "loop"
    /\ scroll' = [scroll EXCEPT !.pc = "raised"]
    /\ UNCHANGED <<ovars, dvars, call, ret, mgvars, harvest>>

NextScroll ==
    \/ ScrollAttempt
    \/ ScrollRaise

\* Each pass of the loop takes bounded time (a sleep of 3 seconds and two
\* script calls), so the loop keeps taking passes while it has not ended.
SpecScroll == InitScroll /\ [][NextScroll]_vars /\ WF_vars(NextScroll)

\* ================================================= the download loop
MaxGallery == 2

\* The value of a key of a payload entry: no such key, or a string, which
\* is empty or a URL given by its path without the suffix, and the suffix.
NoUrl == [present |-> FALSE, path |-> "", suffix |-> ""]

Url(path, suffix) == [present |-> TRUE, path |-> path, suffix |-> suffix]

LargeUrls == {NoUrl, Url("", ""), Url("large", ".webp")}

SlideshowUrls ==
    {NoUrl, Url("", ""), Url("slideshow", ".png"), Url("slideshow", "")}

\* Truth value of dict.get(key): None and "" are falsy.
truthy(u) == u.present /\ u.path # ""

\* Mutant of image_url: the slideshow field is preferred.
image_url_slideshow_first(url_large, url_slideshow) ==
    IF truthy(url_slideshow) THEN url_slideshow ELSE url_large

\* Line 345: target_image_info.get('url_large') or
\* target_image_info.get('url_slideshow').
image_url(url_large, url_slideshow) ==
    IF truthy(url_large) THEN url_large ELSE url_slideshow

\* Lines 354-359: the suffix of the path of the URL, ".jpg" when there is
\* none (no suffix in the model is longer than 5 characters).
extension(u) == IF u.suffix = "" THEN ".jpg" ELSE u.suffix

\* What one gallery item leads to: whether the thumbnail has an href; what
\* the page of the item is ("transport": the request fails or answers with
\* an error status; no container; no 'data-images'; unparsable JSON; JSON
\* that is not a non-empty list; no target entry; or a target entry); the
\* two URL fields of the target entry; and how the download of the image
\* goes.
PageKinds ==
    {"transport", "no_container", "no_payload", "bad_json", "not_list",
     "no_target"}

GalleryItem(href, page, url_large, url_slideshow, download) ==
    [href |-> href, page |-> page, url_large |-> url_large,
     url_slideshow |-> url_slideshow, download |-> download]

GalleryItems ==
    {GalleryItem(FALSE, "no_container", NoUrl, NoUrl, "ok")}
    \cup {GalleryItem(TRUE, page, NoUrl, NoUrl, "ok") : page \in PageKinds}
    \cup {GalleryItem(TRUE, "entry", l, sl, d) :
             l \in LargeUrls, sl \in SlideshowUrls,
             d \in {"ok", "transport", "io"}}

\* The decimal digits of a number.
RECURSIVE decimal(_)
decimal(n) ==
    LET digit == <<"0", "1", "2", "3", "4", "5", "6", "7", "8", "9">>[(n % 10) + 1]
    IN IF n < 10 THEN <<digit>> ELSE Append(decimal(n \div 10), digit)

\* The format :02d.
format_02d(n) == IF n < 10 THEN <<"0">> \o decimal(n) ELSE decimal(n)

\* Mutant of item_ordinal: the items are numbered by the downloads so far.
item_ordinal_dense(index, downloads) == downloads + 1

\* Line 460: index+1 of enumerate(gallery_items); the number of downloads
\* so far plays no part. index is 1-based here.
item_ordinal(index, downloads) == index

\* Line 460: f"{project_id}_{index+1:02d}".
base_filename(project_id, ordinal) == <<project_id, "_">> \o format_02d(ordinal)

\* Lines 288-374: the try block of download_gallery_image: the values of
\* success and final_filename when it is left (<< >> for None), the URL
\* requested (NoUrl for none), the exception that leaves it ("" for
\* none) and the file it wrote to.
download_try(item, base) ==
    LET u == image_url(item.url_large, item.url_slideshow)
        nothing == [success |-> FALSE, final_filename |-> << >>,
                    image_url |-> NoUrl, exception |-> "", written |-> {}]
        name == Append(base, extension(u))
    IN  CASE item.page = "transport" ->
                 [nothing EXCEPT !.exception = "RequestException"]
          [] item.page \in PageKinds \ {"transport"} -> nothing
          [] OTHER ->
                 IF ~truthy(u) THEN nothing
                 ELSE CASE item.download = "transport" ->
                               [success |-> FALSE, final_filename |-> name,
                                image_url |-> u, exception |-> "RequestException",
                                written |-> {}]
                        [] item.download = "io" ->
                               [success |-> FALSE, final_filename |-> name,
                                image_url |-> u, exception |-> "IOError",
                                written |-> {}]
                        [] OTHER ->
                               [success |-> TRUE, final_filename |-> name,
                                image_url |-> u, exception |-> "",
                                written |-> {name}]

\* Mutant of returns_normally: only the exceptions of requests are caught
\* and there is no return in the finally clause.
returns_normally_requests_only(exception) ==
    exception \in {"", "RequestException"}

\* Lines 376-383: every exception class is caught by one of the except
\* clauses, and the return in the finally clause ends the call normally in
\* any case.
returns_normally(exception) == TRUE

\* Lines 273-383: what the caller gets.
download_gallery_image(item, base) ==
    LET t == download_try(item, base)
    IN [success |-> t.success, final_filename |-> t.final_filename,
        image_url |-> t.image_url, written |-> t.written,
        raised |-> ~returns_normally(t.exception)]

\* Lines 447-449: the loop starts on the items scrape_gallery_thumbnails
\* found for project 101, at least one.
InitHarvest ==
    /\ OrchestratorIdle
    /\ DiscoveryIdle
    /\ call = [fn |-> "none"]
    /\ ret = [done |-> FALSE]
    /\ MergeIdle
    /\ ScrollIdle
    /\ \E n \in 1..MaxGallery : \E items \in [1..n -> GalleryItems] :
         harvest = [pc |-> "loop", gallery_items |-> items, index |-> 1,
                    attempts |-> << >>, all_metadata |-> << >>,
                    written |-> {}, saved |-> FALSE]

\* Lines 450-480: one iteration of the loop: an item without href is
\* skipped; else the image is downloaded under the base filename of the
\* item and, on success, its record is added to all_metadata.
HarvestItem ==
    /\ harvest.pc = "loop"
    /\ harvest.index <= Len(harvest.gallery_items)
    /\ LET item == harvest.gallery_items[harvest.index]
           base == base_filename("101",
                       item_ordinal(harvest.index, Len(harvest.all_metadata)))
           r == download_gallery_image(item, base)
       IN  IF ~item.href
           THEN harvest' = [harvest EXCEPT !.index = @ + 1]
           ELSE IF r.raised
           THEN harvest' = [harvest EXCEPT !.pc = "raised"]
           ELSE harvest' =
                  [harvest EXCEPT
                     !.index = @ + 1,
                     !.attempts = Append(@,
                         [index |-> harvest.index, base_filename |-> base,
                          success |-> r.success,
                          final_filename |-> r.final_filename,
                          image_url |-> r.image_url]),
                     !.all_metadata =
                         IF r.success /\ r.final_filename # << >>
                         THEN Append(@, [filename |-> r.final_filename])
                         ELSE @,
                     !.written = @ \cup r.written]
    /\ UNCHANGED <<ovars, dvars, call, ret, mgvars, scroll>>

\* Lines 484-501: after the loop the metadata file is written when
\* all_metadata is not empty; an IOError of the write is printed.
HarvestSave ==
    /\ harvest.pc = "loop"
    /\ harvest.index > Len(harvest.gallery_items)
    /\ \E dumpOk \in BOOLEAN :
         harvest' = [harvest EXCEPT
                        !.pc = "done",
                        !.saved = harvest.all_metadata # << >> /\ dumpOk]
    /\ UNCHANGED <<ovars, dvars, call, ret, mgvars, scroll>>

NextHarvest ==
    \/ HarvestItem
    \/ HarvestSave

SpecHarvest == InitHarvest /\ [][NextHarvest]_vars

\* ================================================= extraction.py, merge
MaxImages == 1

MaxMerges == 2

ImageNames == {"a.jpg", "b.jpg"}

\* The arrays process_project_images writes (never empty, AD_crawler 487).
ImageArrays == UNION {[1..n -> ImageNames] : n \in 1..MaxImages}

\* {folder}_details.json as project_scraper left it.
DetailFiles ==
    {NoJson, ObjectJson([EmptyObject EXCEPT !["Description"] = Key(<<"text">>)])}

ImagesFiles ==
    {NoJson, CorruptJson, ObjectJson(EmptyObject)}
        \cup {ListJson(a) : a \in ImageArrays}

\* What extract_info_with_gemini returns (extraction.py 26-71): {} on any
\* failure, else the object the service answered with.
ExtractedData ==
    {EmptyObject,
     [EmptyObject EXCEPT !["DesignConcept"] = Key(<<"light">>)],
     [EmptyObject EXCEPT !["Description"] = Key(<<"summary">>)]}

\* dict.update
update(o, e) == [k \in Keys |-> IF e[k].present THEN e[k] ELSE o[k]]

WriteOutcomes == {"written", "refused", "partial"}

\* open(path, 'w') and json.dump: the object is written, or open raises
\* and the file is as before, or the dump raises after open truncated it.
dump_json(file, data, outcome) ==
    CASE outcome = "written" -> ObjectJson(data)
      [] outcome = "refused" -> file
      [] OTHER -> CorruptJson

\* extraction.py 73-110, on one project directory.
process_project_dir(d, extracted_data, outcome) ==
    IF d.details.kind # "object" THEN d
    ELSE IF extracted_data = EmptyObject THEN d
    ELSE [d EXCEPT !.json = dump_json(d.json,
                                update(d.details.obj, extracted_data),
                                outcome)]

\* merge_images_and_collect.py 54-58 and 65-69: the existing {folder}.json
\* is copied to jsons/ outside any try.
copy_existing(d, dest, copied) ==
    IF d.json.kind = "absent"
    THEN [folder |-> d, dest |-> dest, raised |-> FALSE]
    ELSE IF copied
    THEN [folder |-> d, dest |-> d.json, raised |-> FALSE]
    ELSE [folder |-> d, dest |-> dest, raised |-> TRUE]

\* merge_images_and_collect.py 43-110: one iteration of the loop of main.
merge_entry(d, dest, outcome, copied) ==
    IF d.images.kind \in {"absent", "corrupt"}
    THEN copy_existing(d, dest, copied)
    ELSE LET images_content ==
                 IF d.images.kind = "list" THEN d.images.list ELSE << >>
             data_obj ==
                 IF d.json.kind = "object" THEN d.json.obj ELSE EmptyObject
             merged == [data_obj EXCEPT !["images"] = Key(images_content)]
             saved == dump_json(d.json, merged, outcome)
         IN  [folder |-> [d EXCEPT !.json = saved],
              dest |-> IF outcome = "written" /\ copied THEN saved ELSE dest,
              raised |-> FALSE]

\* The data directory as AD_crawler.py left it: no {folder}.json, or one a
\* write left unparsable, or one that is not an object.
InitMerge ==
    /\ ProgramsIdle
    /\ call = [fn |-> "none"]
    /\ ret = [done |-> FALSE]
    /\ \E isdir \in BOOLEAN :
         \E ds \in [MergeFolders -> DetailFiles] :
           \E js \in [MergeFolders -> {NoJson, CorruptJson, ListJson(<< >>)}] :
             \E is \in [MergeFolders -> ImagesFiles] :
               data_root =
                   [isdir |-> isdir,
                    folders |-> [f \in MergeFolders |->
                        IF isdir
                        THEN [details |-> ds[f], json |-> js[f], images |-> is[f]]
                        ELSE NoFolder]]
    /\ out_root = [f \in MergeFolders |-> NoJson]
    /\ merge_run = [pc |-> "idle", todo |-> {}, runs |-> 0,
                    before |-> [data |-> data_root.folders, out |-> out_root]]

\* extraction.py main, the task of one project directory, before any merge.
Extract(f) ==
    /\ merge_run.pc = "idle"
    /\ data_root.isdir
    /\ \E e \in ExtractedData, o \in WriteOutcomes :
         data_root' = [data_root EXCEPT !.folders[f] =
                           process_project_dir(@, e, o)]
    /\ data_root' # data_root
    /\ UNCHANGED <<out_root, merge_run, call, ret, pvars>>

\* merge_images_and_collect.py 21-37: main starts; without a data
\* directory it returns at once.
MergeStart ==
    /\ merge_run.pc \in {"idle", "returned"}
    /\ merge_run.runs < MaxMerges
    /\ merge_run' =
           [pc |-> IF data_root.isdir THEN "loop" ELSE "returned",
            todo |-> IF data_root.isdir THEN MergeFolders ELSE {},
            runs |-> merge_run.runs + 1,
            before |-> [data |-> data_root.folders, out |-> out_root]]
    /\ UNCHANGED <<data_root, out_root, call, ret, pvars>>

\* Lines 39-110: the iteration for one folder, in the order of os.scandir.
MergeFolder(f) ==
    /\ merge_run.pc = "loop"
    /\ f \in merge_run.todo
    /\ \E o \in WriteOutcomes, copied \in BOOLEAN :
         LET r == merge_entry(data_root.folders[f], out_root[f], o, copied)
         IN  /\ data_root' = [data_root EXCEPT !.folders[f] = r.folder]
             /\ out_root' = [out_root EXCEPT ![f] = r.dest]
             /\ merge_run' =
                    IF r.raised
                    THEN [merge_run EXCEPT !.pc = "raised"]
                    ELSE [merge_run EXCEPT !.todo = @ \ {f}]
    /\ UNCHANGED <<call, ret, pvars>>

\* Lines 112-117: the loop is over, the summary is printed, main returns.
MergeEnd ==
    /\ merge_run.pc = "loop"
    /\ merge_run.todo = {}
    /\ merge_run' = [merge_run EXCEPT !.pc = "returned"]
    /\ UNCHANGED <<data_root, out_root, call, ret, pvars>>

NextMerge ==
    \/ \E f \in MergeFolders : Extract(f)
    \/ MergeStart
    \/ \E f \in MergeFolders : MergeFolder(f)
    \/ MergeEnd

SpecMerge == InitMerge /\ [][NextMerge]_vars

\* ------------------------------------------------ reading the ledger
\* The data rows of a ledger file (none when it is missing or empty).
DataRows(f) == IF f.exists /\ Len(f.rows) >= 1 THEN Tail(f.rows) ELSE << >>

\* The lower-cased status of data row k of a ledger file with a status
\* column, as __main__ reads it.
StatusOf(f, k) ==
    lower(row_status(DataRows(f)[k], header_index(f.rows[1], "status")))

\* Data row k is a project row (not the empty row of a blank line).
IsProject(f, k) == DataRows(f)[k] # << >>

\* The rows for which a stage was called in this execution.
Staged == {e[2] : e \in invoked}

DetailCalled == {e[2] : e \in {x \in invoked : x[1] = "detail"}}

NormalMode == entry = "main" /\ ~debug_mode /\ ~text_only_mode

InUpdate == pc \in {"upd_read", "upd_open", "upd_write", "upd_replace"}

\* ------------------------------------------------------------ claims

\* C1: in normal mode the status handed to the commit depends on the two
\* stage outcomes only: error iff the detail stage failed, downloaded iff the
\* detail stage succeeded and the image stage reported success, incomplete
\* iff the detail stage succeeded and the image stage reported failure; an
\* empty status, delete and duplicate are never committed.
C1_StatusFromOutcomes ==
    (NormalMode /\ InUpdate) =>
        /\ upd_status = final_status
        /\ upd_status \in {"error", "incomplete", "downloaded"}
        /\ (upd_status = "error") <=> (scraper_status = "error")
        /\ (upd_status = "downloaded") <=>
               (scraper_status = "downloaded" /\ images_result.returned = "ok")
        /\ (upd_status = "incomplete") <=>
               (scraper_status = "downloaded" /\ images_result.returned = "failed")
        /\ (scraper_status = "error") => (<<"images", i>> \notin invoked)

\* A normal-mode run has committed "incomplete" for a row whose detail stage
\* succeeded and whose image stage failed.
C1_Witness ==
    /\ NormalMode
    /\ pc = "after"
    /\ i \in committed
    /\ scraper_status = "downloaded"
    /\ images_result.returned = "failed"
    /\ StatusOf(fs.csv, i) = "incomplete"

\* C2: in a normal-mode run (the first, or one that follows another run) no
\* stage is invoked for a row that is downloaded, error, incomplete,
\* duplicate or delete at the start of the run, and the row keeps that
\* status in the ledger file throughout the run.
C2_NonEmptyRowsUnchanged ==
    (NormalMode /\ can_update(startLedger) /\ fs.csv.exists
          /\ Len(fs.csv.rows) = Len(startLedger.rows)) =>
        \A k \in 1..Len(DataRows(startLedger)) :
            (StatusOf(startLedger, k) \in
                 {"downloaded", "error", "incomplete", "duplicate", "delete"}) =>
                /\ k \notin Staged
                /\ StatusOf(fs.csv, k) = StatusOf(startLedger, k)

\* C3: in every mode a row that is delete or duplicate at the start of the
\* run has no stage invoked and keeps its status in the ledger file.
C3_DeleteDuplicateUntouched ==
    (entry = "main" /\ can_update(startLedger) /\ fs.csv.exists
          /\ Len(fs.csv.rows) = Len(startLedger.rows)) =>
        \A k \in 1..Len(DataRows(startLedger)) :
            (StatusOf(startLedger, k) \in {"duplicate", "delete"}) =>
                /\ k \notin Staged
                /\ StatusOf(fs.csv, k) = StatusOf(startLedger, k)

\* C4: rows that are error or incomplete at the start are never processed,
\* in text-only mode as in normal mode; rows that are downloaded are never
\* processed outside text-only mode, and a text-only run that reaches the
\* end of the ledger has processed every one of them.
C4_OverrideWidensToDownloaded ==
    (entry = "main" /\ can_update(startLedger)) =>
        \A k \in 1..Len(DataRows(startLedger)) :
            /\ (StatusOf(startLedger, k) \in {"error", "incomplete"}) =>
                   k \notin Staged
            /\ (StatusOf(startLedger, k) = "downloaded" /\ ~text_only_mode) =>
                   k \notin Staged
            /\ (StatusOf(startLedger, k) = "downloaded" /\ text_only_mode
                    /\ pc = "done") =>
                   k \in DetailCalled

\* A text-only run has ended after reprocessing a downloaded row and
\* skipping an error row and an incomplete row.
C4_Witness ==
    /\ entry = "main"
    /\ text_only_mode
    /\ pc = "done"
    /\ \E k \in 1..Len(DataRows(startLedger)) :
          StatusOf(startLedger, k) = "downloaded" /\ k \in DetailCalled
    /\ \E k \in 1..Len(DataRows(startLedger)) :
          StatusOf(startLedger, k) \in {"error", "incomplete"} /\ k \notin Staged

\* The first row of the ledger the run mode makes eligible, 0 if none.
FirstEligible(f, text_only) ==
    LET E == {k \in 1..Len(DataRows(f)) :
                 IsProject(f, k) /\ StatusOf(f, k) \notin skip_statuses(text_only)}
    IN IF E = {} THEN 0 ELSE CHOOSE k \in E : \A j \in E : k <= j

\* C5: a debug run processes at most one row, the first eligible row in
\* ledger order, and never writes: both files are as they were at the start.
C5_DebugNeverCommits ==
    (entry = "main" /\ debug_mode) =>
        /\ fs.csv = startLedger
        /\ ~fs.tmp.exists
        /\ ~InUpdate
        /\ committed = {}
        /\ Cardinality(Staged) <= 1
        /\ \A k \in Staged : k = FirstEligible(startLedger, text_only_mode)
        /\ (pc = "debug_done") => (Staged # {})

\* A debug run has stopped after processing one row that came after an
\* ineligible row, and that row is still empty in the ledger.
C5_Witness ==
    /\ entry = "main"
    /\ debug_mode
    /\ pc = "debug_done"
    /\ \E k \in Staged :
          /\ k > 1
          /\ <<"images", k>> \in invoked
          /\ StatusOf(fs.csv, k) = ""

\* C6: while update_csv_status writes, and after an interruption at any
\* step of the write, the ledger file holds either the complete table that
\* was read or the complete new table.
C6_LedgerOldOrNew ==
    (upd_rows # << >>) =>
        /\ fs.csv.exists
        /\ fs.csv.rows = upd_old \/ fs.csv.rows = upd_rows

\* A commit that changes the table was interrupted while the temporary file
\* held only part of the new table: the ledger still holds the prior table.
C6_Witness ==
    /\ pc = "interrupted"
    /\ upd_rows # << >>
    /\ upd_rows # upd_old
    /\ fs.tmp.exists
    /\ Len(fs.tmp.rows) > 0
    /\ Len(fs.tmp.rows) < Len(upd_rows)
    /\ fs.csv.rows = upd_old

\* C7: a normal-mode run started after an interrupted normal-mode run
\* invokes no stage for a row the interrupted run committed, nor for any row
\* that is downloaded, error or incomplete in the ledger; every committed
\* row is one of those; and when it reaches the end of the ledger it has
\* processed exactly the project rows whose status was still empty.
C7_Resumable ==
    (NormalMode /\ prev.resumed /\ can_update(startLedger)) =>
        /\ \A k \in prev.committed :
              /\ k \notin Staged
              /\ StatusOf(startLedger, k) \in {"downloaded", "error", "incomplete"}
        /\ \A k \in 1..Len(DataRows(startLedger)) :
              (StatusOf(startLedger, k) \in {"downloaded", "error", "incomplete"})
                  => k \notin Staged
        /\ (pc = "done") =>
              DetailCalled = {k \in 1..Len(DataRows(startLedger)) :
                                 IsProject(startLedger, k)
                                     /\ StatusOf(startLedger, k) = ""}

\* The run after an interruption has reached the end of the ledger: it
\* skipped a row the interrupted run had committed and processed a row that
\* was still empty.
C7_Witness ==
    /\ NormalMode
    /\ prev.resumed
    /\ pc = "done"
    /\ prev.committed # {}
    /\ DetailCalled # {}
    /\ prev.committed \cap Staged = {}

\* The frame of one commit: from table old to table new for project_code.
CommitFrame(old, new, project_code) ==
    /\ Len(new) = Len(old)
    /\ new[1] = old[1]
    /\ \A k \in 2..Len(old) :
          /\ (old[k] = << >>) <=> (new[k] = << >>)
          /\ (old[k] # << >>) => (new[k][code_index] = old[k][code_index])
          /\ (old[k] = << >> \/ old[k][code_index] # project_code) => (new[k] = old[k])
    /\ (\A k \in 2..Len(old) : old[k] = << >> \/ old[k][code_index] # project_code)
           => (new = old)

\* C8: the table a commit writes has the rows of the table it read, in the
\* same order, and every row with another identifier is unchanged in all
\* columns; with no row of that identifier the table is unchanged, and a
\* direct call returns with the ledger file holding exactly that table.
C8_CommitFrame ==
    /\ (entry # "remove_csv_status"
           /\ pc \in {"upd_open", "upd_write", "upd_replace"}) =>
           CommitFrame(upd_old, upd_rows, upd_code)
    /\ (entry = "update_csv_status" /\ pc = "returned" /\ can_update(startLedger)) =>
           /\ fs.csv.exists
           /\ CommitFrame(startLedger.rows, fs.csv.rows, upd_code)
           /\ (committed # {}) =>
                  fs.csv.rows = updated_table(startLedger.rows, upd_code, upd_status)

\* A direct commit for an identifier no row has returned after replacing
\* the ledger of two project rows, which is unchanged.
C8_Witness ==
    /\ entry = "update_csv_status"
    /\ pc = "returned"
    /\ committed # {}
    /\ upd_code = "999"
    /\ Len(DataRows(fs.csv)) = 2
    /\ \A k \in 1..2 : IsProject(fs.csv, k)
    /\ fs.csv = startLedger

\* The ledger file has a header line without a status column.
NoStatusColumn(f) ==
    /\ f.exists
    /\ Len(f.rows) >= 1
    /\ \A k \in 1..Len(f.rows[1]) : f.rows[1][k] # "status"

\* C9: over a ledger whose header has no status column the script processes
\* no row, invokes no stage and commits nothing, and update_csv_status
\* returns without writing: both files stay as they were.
C9_NoStatusColumnFatal ==
    NoStatusColumn(startLedger) =>
        /\ fs.csv = startLedger
        /\ ~fs.tmp.exists
        /\ invoked = {}
        /\ committed = {}
        /\ pc \in {"init", "read", "nodriver", "fatal", "interrupted", "call",
                   "upd_read", "returned"}
        /\ (pc = "fatal") => (driver = "quit")

\* The script has exited on a ledger without status column that holds a
\* project row.
C9_Witness ==
    /\ entry = "main"
    /\ NoStatusColumn(startLedger)
    /\ pc = "fatal"
    /\ Len(DataRows(startLedger)) = 1
    /\ IsProject(startLedger, 1)

\* The project ids of a table.
IdsOf(df) == {df[k].project_id : k \in 1..Len(df)}

\* The first row of a table that has the given project id.
FirstWithId(df, id) ==
    df[CHOOSE k \in 1..Len(df) :
          df[k].project_id = id /\ \A j \in 1..(k - 1) : df[j].project_id # id]

\* C10: after all workers are done and main has deduplicated, the table has
\* exactly one row per project id among the appended rows, and that row is
\* the one appended first with that id (after the classification pass: up
\* to its status).
C10_DedupFirstSeen ==
    (mpc \in {"deduped", "art_marked", "returned"}) =>
        /\ IdsOf(projects) = IdsOf(shared_df)
        /\ \A id \in IdsOf(shared_df) :
              /\ Cardinality({k \in 1..Len(projects) : projects[k].project_id = id}) = 1
              /\ \E k \in 1..Len(projects) :
                    IF mpc = "deduped"
                    THEN projects[k] = FirstWithId(shared_df, id)
                    ELSE [projects[k] EXCEPT !.status = ""] = FirstWithId(shared_df, id)

\* Two workers appended a row for the same project id with different
\* keywords, and the deduplicated table is shorter than the shared table.
C10_Witness ==
    /\ mpc = "deduped"
    /\ Len(projects) < Len(shared_df)
    /\ Len(projects) >= 2
    /\ \E a, b \in 1..Len(shared_df) :
          /\ a < b
          /\ shared_df[a].project_id = shared_df[b].project_id
          /\ shared_df[a] # shared_df[b]

\* The batches of the workers in ws, one after the other.
RECURSIVE Batches(_)
Batches(ws) ==
    IF ws = << >> THEN << >>
    ELSE new_projects[Head(ws)] \o Batches(Tail(ws))

\* The workers whose append has stored its result.
Appended ==
    {w \in Workers : wpc[w] \in {"finally", "done"} /\ new_projects[w] # << >>}

\* C11: in every interleaving the shared table is the batches of the workers
\* that appended, whole, each once, in the order of their appends, and the
\* snapshot main takes is such a table.
C11_AppendAtomic ==
    (mpc # "off") =>
        /\ {order[k] : k \in 1..Len(order)} = Appended
        /\ Len(order) = Cardinality(Appended)
        /\ shared_df = Batches(order)
        /\ (mpc = "got") => (projects = Batches(order))

\* Two workers appended their batches, the first one a batch of two rows,
\* and main took its snapshot.
C11_Witness ==
    /\ mpc = "got"
    /\ Len(order) = 2
    /\ projects = new_projects[order[1]] \o new_projects[order[2]]
    /\ Len(new_projects[order[1]]) = 2

\* The ids of ClassifyLinks whose link contains '-art-museum',
\* '-art-gallery' or '-contemporary-art', whatever the case.
ArtIds == {"101", "404", "606", "909"}

\* The ids of ClassifyLinks whose link has one of the research terms as a
\* whole word, whatever the case.
ResearchIds == {"202", "404", "606", "808"}

\* The rows of a table whose project id is in a set.
RowsWithId(df, ids) == {k \in 1..Len(df) : df[k].project_id \in ids}

\* C12: after the classification pass a row is 'delete' if its link matches
\* the art pattern, else 'delete' if it matches a research term as a whole
\* word, else its status is still empty; no other column changes; rule 1
\* counts the art rows and rule 2 counts only the research rows that rule 1
\* did not mark.
C12_TwoRulePriority ==
    LET input == drop_duplicates(shared_df)
    IN /\ (mpc = "art_marked") =>
             /\ projects = [k \in 1..Len(input) |->
                   [input[k] EXCEPT !.status =
                       IF input[k].project_id \in ArtIds THEN "delete" ELSE ""]]
             /\ marked = <<Cardinality(RowsWithId(input, ArtIds))>>
       /\ (mpc = "returned") =>
             /\ projects = [k \in 1..Len(input) |->
                   [input[k] EXCEPT !.status =
                       IF input[k].project_id \in ArtIds THEN "delete"
                       ELSE IF input[k].project_id \in ResearchIds THEN "delete"
                       ELSE ""]]
             /\ marked = <<Cardinality(RowsWithId(input, ArtIds)),
                           Cardinality(RowsWithId(input, ResearchIds \ ArtIds))>>

\* The pass has returned a table with a row that matches both rules and a
\* row that matches rule 2 only: each rule marked one row.
C12_Witness ==
    /\ mpc = "returned"
    /\ Len(projects) = 2
    /\ \E k \in 1..2 : projects[k].project_id \in ArtIds \cap ResearchIds
    /\ \E k \in 1..2 : projects[k].project_id \in ResearchIds \ ArtIds
    /\ marked = <<1, 1>>
    /\ \A k \in 1..2 : projects[k].status = "delete"

\* The entries of a payload whose 'link' contains a token.
Matching(token, image_data) ==
    {k \in 1..Len(image_data) :
        /\ "link" \in image_data[k].keys
        /\ \E a \in 0..Len(image_data[k].link) : \E b \in a..Len(image_data[k].link) :
              SubSeq(image_data[k].link, a + 1, b) = token}

\* The part of a fragment before its first '-'.
Token(fragment) ==
    CHOOSE t \in {SubSeq(fragment, 1, n) : n \in 0..Len(fragment)} :
        /\ \A k \in 1..Len(t) : t[k] # "-"
        /\ Len(t) = Len(fragment) \/ fragment[Len(t) + 1] = "-"

\* The resolver has returned from a call with a valid payload.
Resolved ==
    call.fn = "download_gallery_image" /\ ret.done /\ call.image_data # << >>

\* C13: when the URL has a fragment whose token is in the link of some
\* entry, the target is an entry matched by the token (the first one),
\* whatever the default id is; when the target is an entry the fragment
\* does not match, no entry matched the fragment.
C13_FragmentTierFirst ==
    Resolved =>
        LET F == IF call.url_fragment = << >> THEN {}
                 ELSE Matching(Token(call.url_fragment), call.image_data)
        IN /\ (F # {}) => (ret.target \in F /\ \A k \in F : ret.target <= k)
           /\ (ret.target \notin F) => (F = {})

\* The fragment matches the second entry only, the default id matches the
\* first entry only, and the target is the second entry.
C13_Witness ==
    /\ Resolved
    /\ Len(call.image_data) = 2
    /\ call.url_fragment = <<"2", "-", "f">>
    /\ Matching(<<"2">>, call.image_data) = {2}
    /\ Matching(call.default_image_id_fragment, call.image_data) = {1}
    /\ call.default_image_id_fragment # << >>
    /\ ret.target = 2

\* C14: for a non-empty payload, when neither the fragment nor the default
\* id matches an entry, the target is the first entry; and the resolver
\* always ends with some entry of the payload as its target.
C14_FallbackFirstEntry ==
    Resolved =>
        LET F == IF call.url_fragment = << >> THEN {}
                 ELSE Matching(Token(call.url_fragment), call.image_data)
            D == IF call.default_image_id_fragment = << >> THEN {}
                 ELSE Matching(call.default_image_id_fragment, call.image_data)
        IN /\ (F = {} /\ D = {}) => (ret.target = 1)
           /\ ret.target \in 1..Len(call.image_data)

\* purge_description has returned.
Purged == call.fn = "purge_description" /\ ret.done

\* The places of a paragraph in a list.
Places(l, x) == {k \in 1..Len(l) : l[k] = x}

\* C15: applied to ["ok", "too short", "Check the gallery",
\* "Save this picture!", "ok"] the cleaning filter yields the empty list,
\* as no line has more than three words; on every input the result holds the
\* paragraphs of more than three words that hold no boilerplate text and do
\* not start with "Check the", each once, in the order they are first seen.
C15_PurgeDescription ==
    Purged =>
        LET l == call.description_list
            out == ret.value
            Good == {x \in Paragraphs : Len(x) > 3} \
                        { <<"Check", "then", "go", "there", "now">>,
                          <<"Check", "the", "gallery", "of", "this", "house">>,
                          <<"Save", "this", "picture!", "The", "house", "today">>,
                          <<"You'll", "now", "receive", "updates", "based", "on",
                            "what", "you", "follow!">> }
        IN /\ (l = FiveLines) => (out = << >>)
           /\ {out[k] : k \in 1..Len(out)} = {l[k] : k \in 1..Len(l)} \cap Good
           /\ \A a, b \in 1..Len(out) :
                 (a < b) =>
                    /\ out[a] # out[b]
                    /\ \E ka \in Places(l, out[a]) : \A kb \in Places(l, out[b]) : ka < kb

\* The five lines were cleaned and nothing is left.
C15_Witness ==
    /\ Purged
    /\ call.description_list = FiveLines
    /\ ret.value = << >>

\* C15 as stated: the five lines are cleaned to ["ok"].
C15_YieldsOk ==
    (Purged /\ call.description_list = FiveLines) => (ret.value = << <<"ok">> >>)

\* C16: in a normal-mode run, once the row of project P, empty at the start,
\* has been processed with a successful detail stage and exactly one gallery
\* item, which downloaded, and its status has been committed, the details
\* file of P exists, the metadata file of P holds exactly one record and the
\* ledger row reads 'downloaded'.
C16_EndToEnd ==
    (/\ entry = "main"
     /\ NormalMode
     /\ pc = "after"
     /\ i \in committed
     /\ StatusOf(startLedger, i) = ""
     /\ scraper_status = "downloaded"
     /\ images_result.items = 1
     /\ images_result.downloads = 1) =>
        LET P == rows[i][code_index]
        IN /\ fs.data[P].details
           /\ fs.data[P].images = 1
           /\ StatusOf(fs.csv, i) = "downloaded"

\* process_project_images has returned.
ImagesDone == call.fn = "process_project_images" /\ ret.done

\* The call got as far as scrape_gallery_thumbnails: the project page has
\* an id and its folder could be made.
Enumerated == isdigit(call.project_code) /\ call.mkdirOk

\* The thumbnail enumeration was made and failed.
EnumerationFailed == Enumerated /\ ~call.success_scrape

\* The enumeration found gallery items and none of them downloaded.
NoneDownloaded ==
    /\ Enumerated
    /\ call.success_scrape
    /\ Len(call.results) > 0
    /\ \A k \in 1..Len(call.results) : ~call.results[k]

\* C17: the overall success of the image stage is true when the enumeration
\* found no gallery item or at least one item downloaded, and it is false
\* in four cases and no other: the project page has no numeric id, the
\* project folder cannot be made, the enumeration failed, or items existed
\* and none downloaded.
C17_OverallSuccess ==
    ImagesDone =>
        /\ (Enumerated /\ call.success_scrape /\ Len(call.results) = 0) => ret.value
        /\ (Enumerated /\ call.success_scrape
               /\ \E k \in 1..Len(call.results) : call.results[k]) => ret.value
        /\ (~ret.value) <=>
              \/ ~isdigit(call.project_code)
              \/ isdigit(call.project_code) /\ ~call.mkdirOk
              \/ EnumerationFailed
              \/ NoneDownloaded

\* The folder of a project with a numeric id could not be made and the
\* stage returned failure without enumerating the gallery.
C17_Witness ==
    /\ ImagesDone
    /\ isdigit(call.project_code)
    /\ ~call.mkdirOk
    /\ ~ret.value

\* C17 as stated: the overall success is false only when the enumeration
\* failed or when items existed and none downloaded.
C17_FalseOnlyInTwoCases ==
    (ImagesDone /\ ~ret.value) => (EnumerationFailed \/ NoneDownloaded)

\* remove_csv_status has replaced the ledger.
ResetDone ==
    entry = "remove_csv_status" /\ pc = "returned" /\ committed # {}

\* C18: the full reset leaves a DELETE or DUPLICATE status as it is, and it
\* changes no column other than status.
C18_ResetKeepsTerminal ==
    ResetDone =>
        /\ Len(fs.csv.rows) = Len(startLedger.rows)
        /\ \A k \in 1..Len(DataRows(startLedger)) :
              LET old == DataRows(startLedger)[k]
                  new == DataRows(fs.csv)[k]
              IN /\ Len(new) = Len(old)
                 /\ \A c \in 1..Len(old) :
                       (c # header_index(LedgerHeader, "status")) => new[c] = old[c]
                 /\ (StatusOf(startLedger, k) \in {"delete", "duplicate"}) =>
                       StatusOf(fs.csv, k) = StatusOf(startLedger, k)

\* C19: when the orchestrator has ended, on any of its exit paths, its
\* browser session is not left running: it was quit or it never started;
\* and when the task of a discovery worker has returned, on any of its exit
\* paths, its own session is not left running either.
C19_SessionsQuit ==
    /\ (entry = "main" /\ pc \in Terminal) => (driver # "started")
    /\ \A w \in DOMAIN wpc : (wpc[w] = "done") => (wdriver[w] # "started")

\* The orchestrator was stopped in the middle of the commit of a row, after
\* both stages had run with the shared session, and the session was quit.
C19_Witness ==
    /\ entry = "main"
    /\ pc = "interrupted"
    /\ driver = "quit"
    /\ upd_rows # << >>
    /\ fs.tmp.exists

\* ------------------------------------------------ the merge step
\* Folder f has an image metadata file that parses to an array.
ReadableImages(f) == data_root.folders[f].images.kind = "list"

\* {folder}.json holds an "images" key equal to the array of the folder.
Enriched(f) ==
    /\ data_root.folders[f].json.kind = "object"
    /\ data_root.folders[f].json.obj["images"] =
           Key(data_root.folders[f].images.list)

\* Every key other than "images" that object o holds is in {folder}.json
\* with the same value.
KeepsKeys(f, o) ==
    \A k \in Keys \ {"images"} :
        o[k].present =>
            /\ data_root.folders[f].json.kind = "object"
            /\ data_root.folders[f].json.obj[k] = o[k]

\* C20: when the merge has returned, every folder with a readable image
\* array has a {folder}.json holding "images" equal to the array and every
\* other key of the detail record, and of the file as it was before the
\* merge, with its value; the copy in jsons/ is identical to it; and a
\* second merge has changed neither file.
C20_MergeEnriches ==
    (merge_run.pc = "returned") =>
        \A f \in MergeFolders :
            ReadableImages(f) =>
                /\ Enriched(f)
                /\ (data_root.folders[f].details.kind = "object"
                        => KeepsKeys(f, data_root.folders[f].details.obj))
                /\ (merge_run.before.data[f].json.kind = "object"
                        => KeepsKeys(f, merge_run.before.data[f].json.obj))
                /\ out_root[f] = data_root.folders[f].json
                /\ (merge_run.runs >= 2 =>
                        /\ data_root.folders[f].json
                               = merge_run.before.data[f].json
                        /\ out_root[f] = merge_run.before.out[f])

\* ------------------------------------------------ sequencing of a row
\* The positions inside update_csv_status.
CommitPcs == {"upd_read", "upd_open", "upd_write", "upd_replace"}

\* This step of __main__ calls stage st for the current row.
StageCall(st) ==
    /\ <<st, i>> \notin invoked
    /\ invoked' = invoked \cup {<<st, i>>}

\* This step of __main__ calls update_csv_status for the current row.
CommitCall ==
    /\ pc = "final"
    /\ pc' = "upd_read"
    /\ upd_code' = rows[i][code_index]

\* The steps of __main__ that keep the order of one row: the loop index
\* moves one row at a time; a stage is called for the current row only, once,
\* and after every stage call of the earlier rows; the image stage only after
\* a successful detail stage of the same row; the commit only after the
\* stages of the row; and the row after a processed row is reached from the
\* end of that iteration only. With commitAlways the iteration also has to
\* pass through one call of update_csv_status and to go on with the next
\* row, whatever happened to this one.
RowOrder(commitAlways) ==
    (entry = "main" /\ pc' # "interrupted" /\ pc \notin {"init", "read"}) =>
        /\ i' \in {i, i + 1}
        /\ (invoked' # invoked) =>
               /\ StageCall("detail") \/ StageCall("images")
               /\ i' = i
               /\ \A k \in Staged : k <= i
        /\ StageCall("detail") =>
               /\ pc = "detail"
               /\ \A k \in Staged : k < i
        /\ StageCall("images") =>
               /\ pc = "images"
               /\ <<"detail", i>> \in invoked
               /\ scraper_status = "downloaded"
        /\ (pc = "images" /\ scraper_status # "downloaded") =>
               invoked' = invoked
        /\ (pc' = "upd_read" /\ pc # "upd_read") =>
               /\ CommitCall
               /\ <<"detail", i>> \in invoked
        /\ (i' = i + 1 /\ i \in Staged) => (pc = "after")
        /\ (pc' = "after" /\ pc # "after") =>
               \/ pc \in CommitPcs
               \/ ~commitAlways /\ pc = "final" /\ debug_mode
        /\ (pc = "final") =>
               \/ CommitCall
               \/ ~commitAlways /\ debug_mode /\ pc' = "after"
        /\ (pc = "after") =>
               \/ pc' = "loop" /\ i' = i + 1
               \/ ~commitAlways /\ debug_mode /\ pc' = "debug_done"

\* C21: outside debug mode the orchestrator is strictly sequential: rows
\* are visited one after the other in ledger order, and for each eligible
\* row the detail stage is called, then the image stage only if the detail
\* stage succeeded, then update_csv_status exactly once, all before any
\* stage call for a later row, and the loop goes on with the next row
\* whether the row failed or not. In debug mode the same order holds, but
\* the row gets no commit and the loop stops after it.
C21_StrictlySequential == [][RowOrder(FALSE) /\ (~debug_mode => RowOrder(TRUE))]_vars

\* Row 1 failed in the detail stage, so its image stage was never called;
\* row 2 was then processed through both stages, and both commits reached
\* the ledger.
C21_Witness ==
    /\ entry = "main"
    /\ ~debug_mode
    /\ pc = "after"
    /\ i = 2
    /\ invoked = {<<"detail", 1>>, <<"detail", 2>>, <<"images", 2>>}
    /\ committed = {1, 2}

\* C21 as stated, for every mode: every eligible row gets exactly one commit
\* and the following rows are processed after it.
C21_EveryRowCommitted == [][RowOrder(TRUE)]_vars

\* ------------------------------------------------ the scroll loop
\* The number of heights at the end of the measured ones that are equal to
\* the height measured just before them.
RECURSIVE trailing_same(_)
trailing_same(measured) ==
    IF Len(measured) < 2 THEN 0
    ELSE IF measured[Len(measured)] # measured[Len(measured) - 1] THEN 0
    ELSE 1 + trailing_same(SubSeq(measured, 1, Len(measured) - 1))

\* The loop has ended exactly when the last three heights measured are all
\* equal to the height before them, and the counter is the number of
\* consecutive attempts without a change.
ExitsAtThird ==
    (scroll.pc \in {"loop", "exited"}) =>
        /\ scroll.scroll_attempts = trailing_same(scroll.measured)
        /\ (scroll.pc = "exited")
               <=> (trailing_same(scroll.measured) >= max_scroll_attempts)

\* C22: the scroll loop ends for every sequence of measured heights, and it
\* ends exactly at the third consecutive attempt on which the height did not
\* change.
C22_ScrollBounded ==
    /\ <>(scroll.pc \in {"exited", "raised"})
    /\ []ExitsAtThird

\* ------------------------------------------------ the links of a batch
\* C23: every link of a batch from which a numeric project id parses is in
\* the batch appended to the shared table, whatever the other links of the
\* listing are, a link element without an href value included.
C23_BadLinkDroppedAlone ==
    (call.fn = "crawl_task_links" /\ ret.done) =>
        \A k \in 1..Len(call.project_links) :
            LET link == call.project_links[k]
            IN (link # NoHref /\ search_id(link) # "") =>
                   \E j \in 1..Len(ret.value.appended) :
                       /\ ret.value.appended[j].link = link
                       /\ ret.value.appended[j].project_id = search_id(link)

\* ------------------------------------------------ completion orders
\* The orders in which the workers in ws can complete their appends.
CompletionOrders(ws) ==
    {o \in [1..Cardinality(ws) -> ws] :
        \A a, b \in 1..Cardinality(ws) : (a # b) => (o[a] # o[b])}

\* C24: the project ids of the deduplicated table are the ids of the batches
\* of the workers, and deduplicating the same batches appended in any other
\* completion order gives the same ids, one row each; the row kept for an id
\* is the one of the batch appended first.
C24_IdsOrderIndependent ==
    (mpc \in {"deduped", "art_marked", "returned"}) =>
        /\ IdsOf(projects) = UNION {IdsOf(new_projects[w]) : w \in Workers}
        /\ \A o \in CompletionOrders(Appended) :
              LET other == drop_duplicates(Batches(o))
              IN  /\ IdsOf(other) = IdsOf(projects)
                  /\ Len(other) = Len(projects)
                  /\ \A id \in IdsOf(other) :
                        FirstWithId(other, id) = FirstWithId(Batches(o), id)

\* Both workers appended a row for the same project id, worker 2 first; the
\* row kept is the one of worker 2, and the other completion order would
\* have kept a different row for the same set of ids.
C24_Witness ==
    /\ mpc = "deduped"
    /\ order = <<2, 1>>
    /\ \E id \in IdsOf(new_projects[1]) \cap IdsOf(new_projects[2]) :
          /\ FirstWithId(projects, id) = FirstWithId(new_projects[2], id)
          /\ FirstWithId(drop_duplicates(Batches(<<1, 2>>)), id)
                 # FirstWithId(projects, id)
    /\ IdsOf(drop_duplicates(Batches(<<1, 2>>))) = IdsOf(projects)

\* ------------------------------------------------ the download loop
\* The gallery item an attempt of the loop was made for.
ItemOf(a) == harvest.gallery_items[a.index]

\* The item cannot be downloaded: its page, its payload or its target entry
\* is missing or malformed, the entry has no image URL, or the download
\* meets a transport or I/O error.
ItemFails(item) ==
    \/ item.page # "entry"
    \/ ~truthy(item.url_large) /\ ~truthy(item.url_slideshow)
    \/ item.download # "ok"

Attempts == {harvest.attempts[k] : k \in 1..Len(harvest.attempts)}

\* C25: the download step never raises; an item that fails for any of the
\* reasons returns failure and adds no record; and the loop goes through
\* the items in order whatever failed: the attempts made so far are the
\* items with an href before the current one, each once, in page order,
\* and the loop ends only after the last item.
C25_ItemFailureIsLocal ==
    (harvest.pc # "off") =>
        /\ harvest.pc # "raised"
        /\ \A a \in Attempts : ItemFails(ItemOf(a)) => ~a.success
        /\ Len(harvest.all_metadata)
               = Cardinality({a \in Attempts : ~ItemFails(ItemOf(a))})
        /\ {a.index : a \in Attempts}
               = {j \in 1..(harvest.index - 1) : harvest.gallery_items[j].href}
        /\ \A k \in 1..(Len(harvest.attempts) - 1) :
               harvest.attempts[k].index < harvest.attempts[k + 1].index
        /\ (harvest.pc = "done") =>
               (harvest.index = Len(harvest.gallery_items) + 1)

\* The first item failed with an I/O error while its image was written,
\* the second item was then downloaded, and the loop has ended.
C25_Witness ==
    /\ harvest.pc = "done"
    /\ Len(harvest.attempts) = 2
    /\ ItemOf(harvest.attempts[1]).page = "entry"
    /\ ItemOf(harvest.attempts[1]).download = "io"
    /\ ~harvest.attempts[1].success
    /\ harvest.attempts[2].success

\* The indexes of the items that downloaded.
Downloaded == {a.index : a \in {b \in Attempts : b.success}}

\* The j-th smallest element of a set of numbers.
NthOf(S, j) == CHOOSE n \in S : Cardinality({m \in S : m < n}) = j - 1

\* C26: the i-th item is downloaded under the base 101_{i in two digits}
\* whether earlier items failed or not; all_metadata holds one record per
\* downloaded item, in increasing order of the ordinals, each under the
\* base of its item; and the metadata file is written only when
\* all_metadata is not empty.
C26_OrdinalNaming ==
    (harvest.pc # "off") =>
        /\ \A a \in Attempts :
               a.base_filename = <<"101", "_">> \o format_02d(a.index)
        /\ Len(harvest.all_metadata) = Cardinality(Downloaded)
        /\ \A j \in 1..Len(harvest.all_metadata) :
               SubSeq(harvest.all_metadata[j].filename, 1, 4)
                   = <<"101", "_">> \o format_02d(NthOf(Downloaded, j))
        /\ harvest.saved => (harvest.all_metadata # << >>)

\* The first item failed and the second was downloaded: the only record is
\* the one of ordinal 02, and the metadata file was written.
C26_Witness ==
    /\ harvest.pc = "done"
    /\ harvest.saved
    /\ Len(harvest.attempts) = 2
    /\ ~harvest.attempts[1].success
    /\ harvest.all_metadata = <<[filename |-> <<"101", "_", "0", "2", ".webp">>]>>

\* C27: for an item with a target entry the URL downloaded is the large
\* field when it is there and not empty, else the slideshow field; when
\* both are missing or empty the item fails, has no filename and no file is
\* written under its base.
C27_LargeThenSlideshow ==
    \A a \in Attempts :
        LET item == ItemOf(a)
        IN  (item.page = "entry") =>
                /\ truthy(item.url_large) => (a.image_url = item.url_large)
                /\ (~truthy(item.url_large) /\ truthy(item.url_slideshow))
                       => (a.image_url = item.url_slideshow)
                /\ (~truthy(item.url_large) /\ ~truthy(item.url_slideshow)) =>
                       /\ ~a.success
                       /\ a.final_filename = << >>
                       /\ \A f \in harvest.written :
                              SubSeq(f, 1, 4) # a.base_filename

\* One item had both fields and was downloaded from the large one; another
\* had an empty large field and was downloaded from the slideshow one.
C27_Witness ==
    \E a, b \in Attempts :
        /\ a.success
        /\ truthy(ItemOf(a).url_slideshow)
        /\ a.image_url = Url("large", ".webp")
        /\ b.success
        /\ ItemOf(b).url_large = Url("", "")
        /\ b.image_url = Url("slideshow", ".png")

\* ------------------------------------------------ short and repeated rows
\* The column of 'status' in a header that has one.
StatusColumn(header) == CHOOSE k \in 1..Len(header) : header[k] = "status"

\* The rows of the table read that the commit is for: not empty, first
\* column equal to the project code.
Targets == {k \in 2..Len(upd_old) :
               upd_old[k] # << >> /\ upd_old[k][code_index] = upd_code}

\* update_csv_status has read the table and built the rows it will write.
CommitBuilt ==
    /\ entry \in {"main", "update_csv_status"}
    /\ pc \in {"upd_open", "upd_write", "upd_replace"}

\* C28: a row the commit is for that is too short to hold the status column
\* is as long as the header afterwards, holds the new status in the status
\* column, its own fields where they were, and empty fields in between.
C28_ShortRowPadded ==
    CommitBuilt =>
        \A k \in Targets :
            LET sidx == StatusColumn(upd_old[1])
            IN  (Len(upd_old[k]) < sidx) =>
                    /\ Len(upd_rows[k]) = Len(upd_old[1])
                    /\ upd_rows[k][sidx] = upd_status
                    /\ \A j \in 1..Len(upd_old[k]) : upd_rows[k][j] = upd_old[k][j]
                    /\ \A j \in (Len(upd_old[k]) + 1)..Len(upd_old[1]) :
                           (j # sidx) => (upd_rows[k][j] = "")

\* The orchestrator processed a short row and its commit replaced the
\* ledger: the row now has the four columns of the header, an empty keyword
\* and the final status.
C28_Witness ==
    /\ entry = "main"
    /\ pc = "after"
    /\ i = 1
    /\ rows[1] = ShortRow("101")
    /\ committed = {1}
    /\ final_status = "incomplete"
    /\ fs.csv.rows[2] = <<"101", "link", "", "incomplete">>

\* C30: a commit sets the status of every row whose first column is the
\* project code, the first such row and every later one, whatever status
\* it had; the rows written differ from the rows read in nothing else.
C30_EveryMatchingRow ==
    CommitBuilt =>
        /\ \A k \in Targets :
               /\ Len(upd_rows[k]) >= StatusColumn(upd_old[1])
               /\ upd_rows[k][StatusColumn(upd_old[1])] = upd_status
        /\ \A k \in (2..Len(upd_old)) \ Targets : upd_rows[k] = upd_old[k]

\* The ledger held two rows of project 101, the second one marked
\* duplicate; the commit of the first row has rewritten both.
C30_Witness ==
    /\ entry = "main"
    /\ pc = "after"
    /\ i = 1
    /\ committed = {1}
    /\ final_status = "error"
    /\ Len(startLedger.rows) = 3
    /\ Len(fs.csv.rows) = 3
    /\ startLedger.rows[2] = FullRow("101", "")
    /\ startLedger.rows[3] = FullRow("101", "duplicate")
    /\ fs.csv.rows[2] = FullRow("101", "error")
    /\ fs.csv.rows[3] = FullRow("101", "error")

\* ------------------------------------------------ the detail stage
\* C29: when the page cannot be fetched the detail stage returns "error"
\* after that one fetch; no call fetches the page more than once; and a
\* timeout of the wait for the content marker is no failure: the available
\* HTML is parsed and the stage returns "downloaded" when the record is
\* saved.
C29_FetchOnceWaitDegrades ==
    (call.fn = "project_scraper" /\ ret.done) =>
        /\ ret.value.fetches <= 1
        /\ ~call.getOk =>
               (ret.value.status = "error" /\ ret.value.html = "")
        /\ (call.getOk /\ call.wait = "timeout") =>
               /\ ret.value.html = "available"
               /\ ret.value.status = (IF call.saveOk THEN "downloaded" ELSE "error")

\* The page was fetched, the wait for the content marker timed out and the
\* stage still returned "downloaded".
C29_Witness ==
    /\ call.fn = "project_scraper"
    /\ ret.done
    /\ call.getOk
    /\ call.wait = "timeout"
    /\ ret.value.status = "downloaded"

\* ------------------------------------------------ text-only mode
TextOnly == entry = "main" /\ text_only_mode

\* C31: in text-only mode the image stage is never called and no image
\* file is written; the status handed to the commit is downloaded when the
\* detail stage succeeded and error when it failed, never incomplete.
C31_TextOnlyAssumesImages ==
    TextOnly =>
        /\ \A e \in invoked : e[1] # "images"
        /\ images_result = NoImages
        /\ fs.data = [f \in DataFolders |->
                         [details |-> fs.data[f].details, images |-> 0]]
        /\ InUpdate =>
               /\ upd_status = final_status
               /\ upd_status \in {"downloaded", "error"}
               /\ (upd_status = "downloaded") <=> (scraper_status = "downloaded")
               /\ (upd_status = "error") <=> (scraper_status = "error")

\* A text-only run has ended with a row that was empty now downloaded, no
\* image fetched, and a row that was downloaded now error.
C31_Witness ==
    /\ TextOnly
    /\ pc = "done"
    /\ can_update(startLedger)
    /\ Len(fs.csv.rows) = 3
    /\ Len(startLedger.rows) = 3
    /\ StatusOf(startLedger, 1) = ""
    /\ StatusOf(fs.csv, 1) = "downloaded"
    /\ StatusOf(startLedger, 2) = "downloaded"
    /\ StatusOf(fs.csv, 2) = "error"
    /\ committed = {1, 2}
    /\ \A f \in DataFolders : fs.data[f].images = 0

\* ------------------------------------------------ the returned table
\* The statuses of a table are empty or delete.
EmptyOrDelete(df) == \A k \in 1..Len(df) : df[k].status \in {"", "delete"}

\* A step of the classification pass keeps every row in its place with its
\* project_id, link and keyword.
ClassifyFrame ==
    (mpc \in {"deduped", "art_marked"}) =>
        /\ Len(projects') = Len(projects)
        /\ \A k \in 1..Len(projects) :
              /\ k <= Len(projects')
              /\ projects'[k].project_id = projects[k].project_id
              /\ projects'[k].link = projects[k].link
              /\ projects'[k].keyword = projects[k].keyword

\* C32: every status of the table main works on and returns is empty or
\* delete, and the two classification steps change no column other than
\* status and remove no row.
C32_EmptyOrDeleteOnly ==
    [](EmptyOrDelete(projects) /\ EmptyOrDelete(shared_df)) /\ [][ClassifyFrame]_vars

\* main has returned a table of two rows, one delete and one empty.
C32_Witness ==
    /\ mpc = "returned"
    /\ Len(projects) = 2
    /\ projects[1].status = "delete"
    /\ projects[2].status = ""

\* ------------------------------------------------ row eligibility
\* The status of data row k as it is spelled in the file, "" for a row cut
\* short before the status column.
SpelledStatus(f, k) ==
    row_status(DataRows(f)[k], header_index(f.rows[1], "status"))

\* The spellings of error, incomplete, duplicate and delete, and of
\* downloaded.
SkippedSpellings ==
    {"error", "ERROR", "incomplete", "Incomplete", "duplicate", "DUPLICATE",
     "delete", "DELETE"}

DownloadedSpellings == {"downloaded", "Downloaded"}

\* Row k is skipped by the run mode whatever the letter case of its status.
SkippedRow(f, k) ==
    \/ ~IsProject(f, k)
    \/ SpelledStatus(f, k) \in SkippedSpellings
    \/ ~text_only_mode /\ SpelledStatus(f, k) \in DownloadedSpellings

\* C33: no stage is ever called for a row whose status, in any letter case,
\* is in the skip list of the run mode; and a run outside debug mode that
\* reaches the end of the ledger has called the detail stage for every
\* other row: an empty status, a missing status or an unknown value.
C33_EligibleByLowerCase ==
    (entry = "main" /\ can_update(startLedger)) =>
        \A k \in 1..Len(DataRows(startLedger)) :
            /\ SkippedRow(startLedger, k) => k \notin Staged
            /\ (~debug_mode /\ pc = "done" /\ ~SkippedRow(startLedger, k)) =>
                   k \in DetailCalled

\* A run in normal mode has ended after skipping a row spelled Downloaded
\* and processing a row with an unknown status.
C33_Witness ==
    /\ entry = "main"
    /\ ~debug_mode
    /\ ~text_only_mode
    /\ pc = "done"
    /\ Len(DataRows(startLedger)) = 2
    /\ SpelledStatus(startLedger, 1) = "Downloaded"
    /\ SpelledStatus(startLedger, 2) = "PENDING"
    /\ Staged = {2}

\* ------------------------------------------------ the end of a run
\* The run is outside debug mode, has gone past the last row, and the
\* commit of every row it processed replaced the ledger.
RunCompleted ==
    /\ entry = "main"
    /\ ~debug_mode
    /\ pc = "done"
    /\ can_update(startLedger)
    /\ committed = DetailCalled

IsSubsequence(out, l) ==
    \E f \in [1..Len(out) -> 1..Len(l)] :
        /\ \A a, b \in 1..Len(out) : (a < b) => (f[a] < f[b])
        /\ \A k \in 1..Len(out) : out[k] = l[f[k]]

\* The words of phrase stand one after the other somewhere in line x.
HasPhrase(x, phrase) ==
    \E a \in 1..Len(x) :
        /\ a + Len(phrase) - 1 <= Len(x)
        /\ \A k \in 1..Len(phrase) : x[a + k - 1] = phrase[k]

\* C35: the list the cleaning filter returns is a subsequence of its input
\* with no line twice, no line of three words or fewer, no line holding a
\* boilerplate phrase and no line that starts with "Check the"; the filter
\* applied to that list returns it unchanged.
C35_PurgeSubsequenceIdempotent ==
    Purged =>
        LET l == call.description_list
            out == ret.value
        IN /\ IsSubsequence(out, l)
           /\ \A a, b \in 1..Len(out) : (a # b) => (out[a] # out[b])
           /\ \A k \in 1..Len(out) :
                 /\ Len(out[k]) > 3
                 /\ \A phrase \in boilerplate : ~HasPhrase(out[k], phrase)
                 /\ ~(out[k][1] = "Check" /\ out[k][2] \in {"the", "then"})
           /\ ("again" \in DOMAIN ret) => (ret.again = out)

\* The filter was applied twice to a list that holds the same line twice:
\* one copy is left, and the second application changed nothing.
C35_Witness ==
    /\ Purged
    /\ "again" \in DOMAIN ret
    /\ Len(call.description_list) = 2
    /\ call.description_list[1] = call.description_list[2]
    /\ Len(ret.value) = 1
    /\ ret.again = ret.value

\* ------------------------------------------------ matching inside a tier
\* The smallest element of a non-empty set of positions.
First(S) == CHOOSE k \in S : \A j \in S : k <= j

\* The entries of a payload that have a 'link' field.
WithLink(image_data) == {k \in 1..Len(image_data) : "link" \in image_data[k].keys}

\* C36: in the fragment tier and in the default-id tier the target is the
\* first entry, in payload order, whose link contains the token, also when
\* a later entry's link is the token itself; a fragment that begins with '-'
\* has the empty token and selects the first entry with a link field; an
\* entry without a link field is the target only as the first entry of the
\* payload, when neither tier matched.
C36_FirstSubstringMatchWins ==
    Resolved =>
        LET p == call.image_data
            F == IF call.url_fragment = << >> THEN {}
                 ELSE Matching(Token(call.url_fragment), p)
            D == IF call.default_image_id_fragment = << >> THEN {}
                 ELSE Matching(call.default_image_id_fragment, p)
        IN /\ (F # {}) => (ret.target = First(F))
           /\ (F = {} /\ D # {}) => (ret.target = First(D))
           /\ (call.url_fragment # << >> /\ call.url_fragment[1] = "-"
                   /\ WithLink(p) # {}) =>
                  (ret.target = First(WithLink(p)))
           /\ (ret.target # 0 /\ ret.target \notin WithLink(p)) =>
                  (F = {} /\ D = {} /\ ret.target = 1)
           /\ F \subseteq WithLink(p)
           /\ D \subseteq WithLink(p)

\* The token "2" is inside the link "12" of the first entry and is the whole
\* link of the second entry: the first entry is the target.
C36_Witness ==
    /\ Resolved
    /\ Len(call.image_data) = 2
    /\ call.url_fragment = <<"2", "-", "f">>
    /\ call.image_data[1].link = <<"1", "2">>
    /\ call.image_data[2].link = <<"2">>
    /\ "link" \in call.image_data[1].keys
    /\ ret.target = 1

\* ------------------------------------------------ the two project ids
\* The first all-digit segment of the paths of the model, "" when a path
\* has none.
DigitSegment(code) ==
    CASE code = "101" -> "101"
      [] code = "x/202/101" -> "202"
      [] OTHER -> ""

\* The folder the detail stage writes under for a path.
DetailFolder(code) ==
    IF DigitSegment(code) = "" THEN "unknown_project" ELSE DigitSegment(code)

\* Both stage decisions of the current row have been taken.
RowStaged == entry = "main" /\ (pc = "final" \/ InUpdate \/ pc = "after")

\* The project codes of the rows whose detail stage was called.
StagedCodes == {rows[k][code_index] : k \in DetailCalled}

====
